---------------------------- MODULE Spec2Model ----------------------------
(***************************************************************************)
(* A model of the D*Mark parser (src/src/lib.rs).                          *)
(*                                                                         *)
(* The parser is a recursive-descent parser over a vector of characters.   *)
(* It is modelled as a machine with an explicit call stack: every frame of *)
(* `stack` is one active call of a parser function, with its locals and    *)
(* the position (`pc`) it has reached; `pos` is ParserContent.pos; `ret`   *)
(* is the value the last finished call handed to its caller.  Characters   *)
(* are one-character strings, a String or Vec<char> is a sequence of them. *)
(* A step of the machine is one basic block of one function: the code from *)
(* one call's return (or a loop head) to the next call, return or loop     *)
(* head.  Parser::call (new, run, then the error with its context) ends a   *)
(* behaviour: `result` is what it returned.                                *)
(***************************************************************************)
EXTENDS Naturals, Integers, Sequences, FiniteSets, TLC

VARIABLES chars, pos, stack, ret, result

vars == <<chars, pos, stack, ret, result>>

-----------------------------------------------------------------------------
(* Values *)

\* Option::None of a peeked character; no character equals it.
None == "None"

UnexpectedEOF == "UnexpectedEOF"
UnexpectedEOL == "UnexpectedEOL"
UnexpectedEscapeSequence == "UnexpectedEscapeSequence"
UnexpectedRightBrace == "UnexpectedRightBrace"
UnexpectedContentAfterBlockName == "UnexpectedContentAfterBlockName"
ExpectedLeftBrace == "ExpectedLeftBrace"
ExpectedRightBrace == "ExpectedRightBrace"
ExpectedHash == "ExpectedHash"
ExpectedSpace == "ExpectedSpace"
InvalidCharInName == "InvalidCharInName"

Error ==
  { UnexpectedEOF, UnexpectedEOL, UnexpectedEscapeSequence, UnexpectedRightBrace,
    UnexpectedContentAfterBlockName, ExpectedLeftBrace, ExpectedRightBrace,
    ExpectedHash, ExpectedSpace, InvalidCharInName }

\* Result<T, Error>, plus the two other things `ret` can hold: nothing (no
\* call has just returned) and the unwinding of a panic!.
Ok(v) == [tag |-> "Ok", val |-> v]
Err(e) == [tag |-> "Err", err |-> e]
NoRet == [tag |-> "None"]
Panic == [tag |-> "Panic"]

IsErr(r) == r.tag = "Err"

ElementNode(name, attributes, children) ==
  [type |-> "Element", name |-> name, attributes |-> attributes, children |-> children]

StringNode(content) == [type |-> "String", content |-> content]

Newline == StringNode(<<"\n">>)

\* HashMap::new() and HashMap::insert (an insert of a present key overwrites).
HashMap_new == [k \in {} |-> <<>>]

\* A variant of HashMap_insert that keeps the value of a present key.
HashMap_insert_keep(m, key, value) ==
  [k \in DOMAIN m \cup {key} |-> IF k \in DOMAIN m THEN m[k] ELSE value]

HashMap_insert(m, key, value) ==
  [k \in DOMAIN m \cup {key} |-> IF k = key THEN value ELSE m[k]]

-----------------------------------------------------------------------------
(* Pos and ParserContent *)

Pos_new == [idx |-> 0, col_nr |-> 0, line_nr |-> 0]

Pos_advance(p, nl) ==
  [idx |-> p.idx + 1,
   col_nr |-> IF nl THEN 0 ELSE p.col_nr + 1,
   line_nr |-> IF nl THEN p.line_nr + 1 ELSE p.line_nr]

\* Vec::get with a zero-based index.
get(c, i) == IF i < Len(c) THEN c[i + 1] ELSE None

peek(c, p) == get(c, p.idx)

peek2(c, p) == get(c, p.idx + 1)

advance(c, p) == Pos_advance(p, peek(c, p) = "\n")

consume(c, p) ==
  [pos |-> advance(c, p),
   res |-> IF peek(c, p) = None THEN Err(UnexpectedEOF) ELSE Ok(peek(c, p))]

\* A variant of try_consume_char that moves on whatever the character is.
try_consume_char_always(c, p, expected_c) ==
  [pos |-> advance(c, p), ok |-> peek(c, p) = expected_c]

try_consume_char(c, p, expected_c) ==
  IF peek(c, p) = expected_c
    THEN [pos |-> advance(c, p), ok |-> TRUE]
    ELSE [pos |-> p, ok |-> FALSE]

is_eof(c, p) == peek(c, p) = None

\* A variant of filter that gives its own error for an Err as well.
filter_any(r, accepted, error) ==
  IF r.tag = "Ok" /\ r.val \in accepted THEN r ELSE Err(error)

\* FilterableResult::filter, the predicate given as the set of the values
\* it accepts.
filter(r, accepted, error) ==
  IF r.tag = "Ok" THEN (IF r.val \in accepted THEN r ELSE Err(error)) ELSE r

-----------------------------------------------------------------------------
(* Character classes and single-character readers *)

Letters ==
  { "a", "b", "c", "d", "e", "f", "g", "h", "i", "j", "k", "l", "m",
    "n", "o", "p", "q", "r", "s", "t", "u", "v", "w", "x", "y", "z",
    "A", "B", "C", "D", "E", "F", "G", "H", "I", "J", "K", "L", "M",
    "N", "O", "P", "Q", "R", "S", "T", "U", "V", "W", "X", "Y", "Z" }

Digits == { "0", "1", "2", "3", "4", "5", "6", "7", "8", "9" }

is_name_head_char == Letters

is_name_tail_char == Letters \cup Digits \cup { "-", "_" }

\* Each reader gives [pos, res]: the cursor after the consume and the
\* filtered result.
read_with(c, p, accepted, error) ==
  [pos |-> consume(c, p).pos, res |-> filter(consume(c, p).res, accepted, error)]

\* A variant of read_name_head that takes any name character.
read_name_head_any(c, p) == read_with(c, p, is_name_tail_char, InvalidCharInName)

read_name_head(c, p) == read_with(c, p, is_name_head_char, InvalidCharInName)

\* A variant of read_left_brace with the error of read_right_brace.
read_left_brace_as_right(c, p) == read_with(c, p, {"{"}, ExpectedRightBrace)

read_left_brace(c, p) == read_with(c, p, {"{"}, ExpectedLeftBrace)

\* A variant of read_right_brace with the error of read_left_brace.
read_right_brace_pasted(c, p) == read_with(c, p, {"}"}, ExpectedLeftBrace)

read_right_brace(c, p) == read_with(c, p, {"}"}, ExpectedRightBrace)

\* A variant of read_hash that takes any character.
read_hash_any(c, p) == read_with(c, p, Letters \cup Digits \cup {"#", " ", "\n"}, ExpectedHash)

read_hash(c, p) == read_with(c, p, {"#"}, ExpectedHash)

read_space(c, p) == read_with(c, p, {" "}, ExpectedSpace)

-----------------------------------------------------------------------------
(* Lookahead that does not move the cursor *)

RECURSIVE blank_line_scan(_, _)
blank_line_scan(c, idx) ==
  CASE get(c, idx) = " " -> blank_line_scan(c, idx + 1)
    [] get(c, idx) = None -> [some |-> TRUE, val |-> idx + 1]
    [] get(c, idx) = "\n" -> [some |-> TRUE, val |-> idx + 1]
    [] OTHER -> [some |-> FALSE]

try_read_blank_line(c, p) == blank_line_scan(c, p.idx)

RECURSIVE indentation_chars(_, _)
indentation_chars(c, idx) ==
  IF get(c, idx) = " " THEN 1 + indentation_chars(c, idx + 1) ELSE 0

\* A variant of detect_indentation that counts a single space as a level.
detect_indentation_round_up(c, p) == (indentation_chars(c, p.idx) + 1) \div 2

\* A variant of detect_indentation that gives the count of spaces.
detect_indentation_spaces(c, p) == indentation_chars(c, p.idx)

detect_indentation(c, p) == indentation_chars(c, p.idx) \div 2

\* A variant of try_read_block_start that looks at the '#' alone.
try_read_block_start_hash(c, p) == peek(c, p) = "#"

try_read_block_start(c, p) ==
  peek(c, p) = "#" /\ peek2(c, p) \in is_name_head_char

\* A variant of skip_blank_line that leaves the offset where it is.
skip_blank_line_stay(p, idx) == [idx |-> p.idx, line_nr |-> p.line_nr + 1, col_nr |-> 0]

\* A variant of skip_blank_line that stays on the line.
skip_blank_line_same_line(p, idx) == [idx |-> idx, line_nr |-> p.line_nr, col_nr |-> 0]

\* The cursor after a blank line was skipped (the three assignments made in
\* run and in read_block_with_children).
skip_blank_line(p, idx) == [idx |-> idx, line_nr |-> p.line_nr + 1, col_nr |-> 0]

\* A variant of read_end_of_inline_content that takes a '}' for the end of
\* the line.
read_end_of_inline_content_lenient(c, p) ==
  LET r == consume(c, p) IN
  [pos |-> r.pos,
   res |-> CASE IsErr(r.res) -> Ok(<<>>)
             [] r.res.val \in { "\n", "}" } -> Ok(<<>>)
             [] OTHER -> Panic]

\* [pos, res]: res is Ok, Err(UnexpectedRightBrace) or Panic.
read_end_of_inline_content(c, p) ==
  LET r == consume(c, p) IN
  [pos |-> r.pos,
   res |-> CASE IsErr(r.res) -> Ok(<<>>)
             [] r.res.val = "\n" -> Ok(<<>>)
             [] r.res.val = "}" -> Err(UnexpectedRightBrace)
             [] OTHER -> Panic]

-----------------------------------------------------------------------------
(* The call stack *)

Top(s) == s.stack[Len(s.stack)]

SetTop(s, f) == [s.stack EXCEPT ![Len(s.stack)] = f]

\* Stay in the running call, now at frame f.
Goto(s, p, f) == [pos |-> p, stack |-> SetTop(s, f), ret |-> NoRet]

\* The running call, left at frame f, calls g.
Call(s, p, f, g) == [pos |-> p, stack |-> Append(SetTop(s, f), g), ret |-> NoRet]

\* The running call returns r to its caller.
Return(s, p, r) ==
  [pos |-> p, stack |-> SubSeq(s.stack, 1, Len(s.stack) - 1), ret |-> r]

\* panic!: the stack unwinds and no value is returned.
Abort(s, p) == [pos |-> p, stack |-> <<>>, ret |-> Panic]

At(f, label) == [f EXCEPT !.pc = label]

\* New frames, one per function.
Frame_run == [pc |-> "run_skip_blank_lines", nodes |-> <<>>]

Frame_read_block_with_children(indent) ==
  [pc |-> "read_block_with_children_enter", indent |-> indent,
   res |-> <<>>, pending_blanks |-> 0]

Frame_read_block_element_node ==
  [pc |-> "read_block_element_node_hash", name |-> <<>>, attributes |-> HashMap_new]

Frame_read_inline_element_node ==
  [pc |-> "read_inline_element_node_enter", name |-> <<>>, attributes |-> HashMap_new]

Frame_read_string_node == [pc |-> "read_string_node_loop", res |-> <<>>]

Frame_read_inline_nodes == [pc |-> "read_inline_nodes_loop", res |-> <<>>]

Frame_read_percent_body == [pc |-> "read_percent_body_enter"]

Frame_read_escaped_char == [pc |-> "read_escaped_char_body"]

Frame_read_name == [pc |-> "read_name_head_char", res |-> <<>>]

Frame_read_attribute_value == [pc |-> "read_attribute_value_loop", res |-> <<>>]

Frame_read_attributes ==
  [pc |-> "read_attributes_open", attributes |-> HashMap_new, key |-> <<>>]

Frame_read_indentation(indent) ==
  [pc |-> "read_indentation_loop", indent |-> indent, i |-> 0]

-----------------------------------------------------------------------------
(* Parser::run *)

\* A variant of run_skip_blank_lines that skips one blank line at most.
run_skip_blank_lines_once(c, s) ==
  LET f == Top(s)
      blank_idx == try_read_blank_line(c, s.pos)
  IN  IF is_eof(c, s.pos) \/ ~blank_idx.some
        THEN Goto(s, s.pos, At(f, "run_read_blocks"))
        ELSE Goto(s, skip_blank_line(s.pos, blank_idx.val), At(f, "run_read_blocks"))

\* One iteration of the loop that skips the leading blank lines.
run_skip_blank_lines(c, s) ==
  LET f == Top(s)
      blank_idx == try_read_blank_line(c, s.pos)
  IN  IF is_eof(c, s.pos)
        THEN Goto(s, s.pos, At(f, "run_read_blocks"))
        ELSE IF blank_idx.some
          THEN Goto(s, skip_blank_line(s.pos, blank_idx.val), f)
          ELSE Goto(s, s.pos, At(f, "run_read_blocks"))

\* The head of the loop that reads the top-level blocks.
run_read_blocks(c, s) ==
  LET f == Top(s)
  IN  IF is_eof(c, s.pos)
        THEN Return(s, s.pos, Ok(f.nodes))
        ELSE Call(s, s.pos, At(f, "run_push_block"), Frame_read_block_with_children(0))

\* nodes.push(self.read_block_with_children(0)?)
run_push_block(c, s) ==
  LET f == Top(s)
  IN  IF IsErr(s.ret)
        THEN Return(s, s.pos, s.ret)
        ELSE Goto(s, s.pos, [f EXCEPT !.pc = "run_read_blocks",
                                      !.nodes = Append(@, s.ret.val)])

-----------------------------------------------------------------------------
(* Parser::read_block_with_children *)

read_block_with_children_enter(c, s) ==
  Call(s, s.pos, At(Top(s), "read_block_with_children_header"),
       Frame_read_block_element_node)

\* let mut res = self.read_block_element_node()?; let mut pending_blanks = 0;
read_block_with_children_header(c, s) ==
  LET f == Top(s)
  IN  IF IsErr(s.ret)
        THEN Return(s, s.pos, s.ret)
        ELSE Goto(s, s.pos, [f EXCEPT !.pc = "read_block_with_children_loop",
                                      !.res = s.ret.val,
                                      !.pending_blanks = 0])

\* One iteration of the body loop, up to the call of read_indentation.
read_block_with_children_loop(c, s) ==
  LET f == Top(s)
      blank_idx == try_read_blank_line(c, s.pos)
      sub_indentation == detect_indentation(c, s.pos)
  IN  IF is_eof(c, s.pos)
        THEN Return(s, s.pos, Ok(f.res))
        ELSE IF blank_idx.some
          THEN Goto(s, skip_blank_line(s.pos, blank_idx.val),
                    [f EXCEPT !.pending_blanks = @ + 1])
          ELSE IF sub_indentation < f.indent + 1
            THEN Return(s, s.pos, Ok(f.res))
            ELSE Call(s, s.pos, At(f, "read_block_with_children_indented"),
                      Frame_read_indentation(f.indent + 1))

\* A variant of continuation_separators that puts the separator before every
\* continuation line.
continuation_separators_always(children, pending_blanks) ==
  <<Newline>> \o [i \in 1..pending_blanks |-> Newline]

\* The separator and the pending blank lines put before a continuation line.
continuation_separators(children, pending_blanks) ==
  (IF children # <<>> THEN <<Newline>> ELSE <<>>)
    \o [i \in 1..pending_blanks |-> Newline]

\* A variant of read_block_with_children_indented that leaves the count of
\* pending blank lines as it is.
read_block_with_children_indented_keep(c, s) ==
  LET f == Top(s)
  IN  IF IsErr(s.ret)
        THEN Return(s, s.pos, s.ret)
        ELSE IF try_read_block_start(c, s.pos)
          THEN Call(s, s.pos, At(f, "read_block_with_children_child"),
                    Frame_read_block_with_children(f.indent + 1))
          ELSE Call(s, s.pos,
                    [f EXCEPT !.pc = "read_block_with_children_continued",
                              !.res.children =
                                 @ \o continuation_separators(@, f.pending_blanks)],
                    Frame_read_inline_nodes)

\* self.read_indentation(indent + 1)?; then a nested block or a continuation
\* line, up to the call that reads it.
read_block_with_children_indented(c, s) ==
  LET f == Top(s)
  IN  IF IsErr(s.ret)
        THEN Return(s, s.pos, s.ret)
        ELSE IF try_read_block_start(c, s.pos)
          THEN Call(s, s.pos, At(f, "read_block_with_children_child"),
                    Frame_read_block_with_children(f.indent + 1))
          ELSE Call(s, s.pos,
                    [f EXCEPT !.pc = "read_block_with_children_continued",
                              !.res.children =
                                 @ \o continuation_separators(@, f.pending_blanks),
                              !.pending_blanks = 0],
                    Frame_read_inline_nodes)

\* res.children.push(self.read_block_with_children(indent + 1)?)
read_block_with_children_child(c, s) ==
  LET f == Top(s)
  IN  IF IsErr(s.ret)
        THEN Return(s, s.pos, s.ret)
        ELSE Goto(s, s.pos, [f EXCEPT !.pc = "read_block_with_children_loop",
                                      !.res.children = Append(@, s.ret.val)])

\* res.children.extend(self.read_inline_nodes()?);
\* self.read_end_of_inline_content()?;
read_block_with_children_continued(c, s) ==
  LET f == Top(s)
      e == read_end_of_inline_content(c, s.pos)
  IN  IF IsErr(s.ret)
        THEN Return(s, s.pos, s.ret)
        ELSE CASE e.res.tag = "Ok" ->
                    Goto(s, e.pos, [f EXCEPT !.pc = "read_block_with_children_loop",
                                             !.res.children = @ \o s.ret.val])
               [] e.res.tag = "Err" -> Return(s, e.pos, e.res)
               [] OTHER -> Abort(s, e.pos)

-----------------------------------------------------------------------------
(* Parser::read_block_element_node *)

\* self.read_hash()?; then the call of read_name.
read_block_element_node_hash(c, s) ==
  LET r == read_hash(c, s.pos)
  IN  IF IsErr(r.res)
        THEN Return(s, r.pos, r.res)
        ELSE Call(s, r.pos, At(Top(s), "read_block_element_node_name"), Frame_read_name)

\* let name = self.read_name()?; then the call of read_attributes.
read_block_element_node_name(c, s) ==
  LET f == Top(s)
  IN  IF IsErr(s.ret)
        THEN Return(s, s.pos, s.ret)
        ELSE Call(s, s.pos, [f EXCEPT !.pc = "read_block_element_node_attributes",
                                      !.name = s.ret.val],
                  Frame_read_attributes)

\* A variant of read_block_element_node_attributes that takes any character
\* after the header for the start of the inline content.
read_block_element_node_attributes_lenient(c, s) ==
  LET f == Top(s)
      r == consume(c, s.pos)
      attributes == s.ret.val
  IN  IF IsErr(s.ret)
        THEN Return(s, s.pos, s.ret)
        ELSE CASE IsErr(r.res) ->
                    Return(s, r.pos, Ok(ElementNode(f.name, attributes, <<>>)))
               [] r.res.val = "\n" ->
                    Return(s, r.pos, Ok(ElementNode(f.name, attributes, <<>>)))
               [] OTHER ->
                    Call(s, r.pos, [f EXCEPT !.pc = "read_block_element_node_inline",
                                             !.attributes = attributes],
                         Frame_read_inline_nodes)

\* let attributes = self.read_attributes()?; then the character that ends
\* the header.
read_block_element_node_attributes(c, s) ==
  LET f == Top(s)
      r == consume(c, s.pos)
      attributes == s.ret.val
  IN  IF IsErr(s.ret)
        THEN Return(s, s.pos, s.ret)
        ELSE CASE IsErr(r.res) ->
                    Return(s, r.pos, Ok(ElementNode(f.name, attributes, <<>>)))
               [] r.res.val = "\n" ->
                    Return(s, r.pos, Ok(ElementNode(f.name, attributes, <<>>)))
               [] r.res.val = " " ->
                    Call(s, r.pos, [f EXCEPT !.pc = "read_block_element_node_inline",
                                             !.attributes = attributes],
                         Frame_read_inline_nodes)
               [] OTHER -> Return(s, r.pos, Err(UnexpectedContentAfterBlockName))

\* let nodes = self.read_inline_nodes()?; self.read_end_of_inline_content()?;
\* children.extend(nodes); Ok(ElementNode {..})
read_block_element_node_inline(c, s) ==
  LET f == Top(s)
      e == read_end_of_inline_content(c, s.pos)
  IN  IF IsErr(s.ret)
        THEN Return(s, s.pos, s.ret)
        ELSE CASE e.res.tag = "Ok" ->
                    Return(s, e.pos, Ok(ElementNode(f.name, f.attributes, s.ret.val)))
               [] e.res.tag = "Err" -> Return(s, e.pos, e.res)
               [] OTHER -> Abort(s, e.pos)

-----------------------------------------------------------------------------
(* Parser::read_inline_element_node *)

read_inline_element_node_enter(c, s) ==
  Call(s, s.pos, At(Top(s), "read_inline_element_node_name"), Frame_read_name)

\* let name = self.read_name()?; then the call of read_attributes.
read_inline_element_node_name(c, s) ==
  LET f == Top(s)
  IN  IF IsErr(s.ret)
        THEN Return(s, s.pos, s.ret)
        ELSE Call(s, s.pos, [f EXCEPT !.pc = "read_inline_element_node_attributes",
                                      !.name = s.ret.val],
                  Frame_read_attributes)

\* let attributes = self.read_attributes()?; self.read_left_brace()?; then
\* the call of read_inline_nodes.
read_inline_element_node_attributes(c, s) ==
  LET f == Top(s)
      r == read_left_brace(c, s.pos)
  IN  IF IsErr(s.ret)
        THEN Return(s, s.pos, s.ret)
        ELSE IF IsErr(r.res)
          THEN Return(s, r.pos, r.res)
          ELSE Call(s, r.pos, [f EXCEPT !.pc = "read_inline_element_node_content",
                                        !.attributes = s.ret.val],
                    Frame_read_inline_nodes)

\* let content = self.read_inline_nodes()?; self.read_right_brace()?;
\* Ok(Node::Element(..))
read_inline_element_node_content(c, s) ==
  LET f == Top(s)
      r == read_right_brace(c, s.pos)
  IN  IF IsErr(s.ret)
        THEN Return(s, s.pos, s.ret)
        ELSE IF IsErr(r.res)
          THEN Return(s, r.pos, r.res)
          ELSE Return(s, r.pos, Ok(ElementNode(f.name, f.attributes, s.ret.val)))

-----------------------------------------------------------------------------
(* Parser::read_string_node, read_inline_nodes, read_percent_body,
   read_escaped_char *)

\* A variant of read_string_node_loop that skips the characters of the text.
read_string_node_loop_drop(c, s) ==
  LET f == Top(s)
      ch == peek(c, s.pos)
  IN  IF ch \in {None, "\n", "%", "}"}
        THEN Return(s, s.pos, Ok(StringNode(f.res)))
        ELSE Goto(s, advance(c, s.pos), f)

\* One iteration of the loop of read_string_node.
read_string_node_loop(c, s) ==
  LET f == Top(s)
      ch == peek(c, s.pos)
  IN  IF ch \in {None, "\n", "%", "}"}
        THEN Return(s, s.pos, Ok(StringNode(f.res)))
        ELSE Goto(s, advance(c, s.pos), [f EXCEPT !.res = Append(@, ch)])

\* A variant of read_inline_nodes_loop that ends the run at a ']' too.
read_inline_nodes_loop_bracket(c, s) ==
  LET f == Top(s)
      ch == peek(c, s.pos)
  IN  CASE ch \in {None, "\n", "}", "]"} -> Return(s, s.pos, Ok(f.res))
        [] ch = "%" ->
             Call(s, s.pos, At(f, "read_inline_nodes_push"), Frame_read_percent_body)
        [] OTHER ->
             Call(s, s.pos, At(f, "read_inline_nodes_push"), Frame_read_string_node)

\* The head of the loop of read_inline_nodes, up to the call it makes.
read_inline_nodes_loop(c, s) ==
  LET f == Top(s)
      ch == peek(c, s.pos)
  IN  CASE ch \in {None, "\n", "}"} -> Return(s, s.pos, Ok(f.res))
        [] ch = "%" ->
             Call(s, s.pos, At(f, "read_inline_nodes_push"), Frame_read_percent_body)
        [] OTHER ->
             Call(s, s.pos, At(f, "read_inline_nodes_push"), Frame_read_string_node)

\* A variant of read_inline_nodes_push that puts the new node first.
read_inline_nodes_push_front(c, s) ==
  LET f == Top(s)
  IN  IF IsErr(s.ret)
        THEN Return(s, s.pos, s.ret)
        ELSE Goto(s, s.pos, [f EXCEPT !.pc = "read_inline_nodes_loop",
                                      !.res = <<s.ret.val>> \o @])

\* res.push(self.read_percent_body()?) and res.push(self.read_string_node()?)
read_inline_nodes_push(c, s) ==
  LET f == Top(s)
  IN  IF IsErr(s.ret)
        THEN Return(s, s.pos, s.ret)
        ELSE Goto(s, s.pos, [f EXCEPT !.pc = "read_inline_nodes_loop",
                                      !.res = Append(@, s.ret.val)])

\* The '%' is skipped; the character after it chooses the callee.
read_percent_body_enter(c, s) ==
  LET p == advance(c, s.pos)
      ch == peek(c, p)
  IN  CASE ch = None -> Return(s, p, Err(UnexpectedEOF))
        [] ch \in {"%", "}", "#"} ->
             Call(s, p, At(Top(s), "read_percent_body_result"), Frame_read_escaped_char)
        [] OTHER ->
             Call(s, p, At(Top(s), "read_percent_body_result"),
                  Frame_read_inline_element_node)

\* The callee's result is the result of read_percent_body.
read_percent_body_result(c, s) == Return(s, s.pos, s.ret)

\* A variant of read_escaped_char_body that keeps the '%' in the text.
read_escaped_char_body_raw(c, s) ==
  LET ch == peek(c, s.pos)
  IN  IF ch = None
        THEN Return(s, s.pos, Err(UnexpectedEOF))
        ELSE Return(s, advance(c, s.pos), Ok(StringNode(<<"%", ch>>)))

read_escaped_char_body(c, s) ==
  LET ch == peek(c, s.pos)
  IN  IF ch = None
        THEN Return(s, s.pos, Err(UnexpectedEOF))
        ELSE Return(s, advance(c, s.pos), Ok(StringNode(<<ch>>)))

-----------------------------------------------------------------------------
(* Parser::read_name, read_name_tail_char *)

\* res.push(self.read_name_head()?)
read_name_head_char(c, s) ==
  LET f == Top(s)
      r == read_name_head(c, s.pos)
  IN  IF IsErr(r.res)
        THEN Return(s, r.pos, r.res)
        ELSE Goto(s, r.pos, [f EXCEPT !.pc = "read_name_tail",
                                      !.res = Append(@, r.res.val)])

\* One iteration of `while let Some(c) = self.read_name_tail_char()`.
read_name_tail(c, s) ==
  LET f == Top(s)
      ch == peek(c, s.pos)
  IN  IF ch \in is_name_tail_char
        THEN Goto(s, advance(c, s.pos), [f EXCEPT !.res = Append(@, ch)])
        ELSE Return(s, s.pos, Ok(f.res))

-----------------------------------------------------------------------------
(* Parser::read_attribute_value *)

\* A variant of read_attribute_value_loop that ends the value at a '=' too.
read_attribute_value_loop_equals(c, s) ==
  LET f == Top(s)
      ch == peek(c, s.pos)
      p2 == advance(c, s.pos)
      c2 == peek(c, p2)
  IN  CASE ch = None -> Return(s, s.pos, Err(UnexpectedEOF))
        [] ch = "%" ->
             (CASE c2 = None -> Return(s, p2, Err(UnexpectedEOF))
                [] c2 \in {"%", "]", ","} ->
                     Goto(s, advance(c, p2), [f EXCEPT !.res = Append(@, c2)])
                [] c2 = "\n" -> Return(s, p2, Err(UnexpectedEOL))
                [] OTHER -> Return(s, p2, Err(UnexpectedEscapeSequence)))
        [] ch \in {"]", ",", "="} -> Return(s, s.pos, Ok(f.res))
        [] ch = "\n" -> Return(s, s.pos, Err(UnexpectedEOL))
        [] OTHER -> Goto(s, p2, [f EXCEPT !.res = Append(@, ch)])

\* A variant of read_attribute_value_loop that ends the value at any ']',
\* escaped or not.
read_attribute_value_loop_no_escape(c, s) ==
  LET f == Top(s)
      ch == peek(c, s.pos)
      p2 == advance(c, s.pos)
      c2 == peek(c, p2)
  IN  CASE ch = None -> Return(s, s.pos, Err(UnexpectedEOF))
        [] ch = "%" ->
             (CASE c2 = None -> Return(s, p2, Err(UnexpectedEOF))
                [] c2 \in {"%", ","} ->
                     Goto(s, advance(c, p2), [f EXCEPT !.res = Append(@, c2)])
                [] c2 = "]" -> Return(s, p2, Ok(Append(f.res, ch)))
                [] c2 = "\n" -> Return(s, p2, Err(UnexpectedEOL))
                [] OTHER -> Return(s, p2, Err(UnexpectedEscapeSequence)))
        [] ch \in {"]", ","} -> Return(s, s.pos, Ok(f.res))
        [] ch = "\n" -> Return(s, s.pos, Err(UnexpectedEOL))
        [] OTHER -> Goto(s, p2, [f EXCEPT !.res = Append(@, ch)])

\* One iteration of the loop of read_attribute_value.
read_attribute_value_loop(c, s) ==
  LET f == Top(s)
      ch == peek(c, s.pos)
      p2 == advance(c, s.pos)
      c2 == peek(c, p2)
  IN  CASE ch = None -> Return(s, s.pos, Err(UnexpectedEOF))
        [] ch = "%" ->
             (CASE c2 = None -> Return(s, p2, Err(UnexpectedEOF))
                [] c2 \in {"%", "]", ","} ->
                     Goto(s, advance(c, p2), [f EXCEPT !.res = Append(@, c2)])
                [] c2 = "\n" -> Return(s, p2, Err(UnexpectedEOL))
                [] OTHER -> Return(s, p2, Err(UnexpectedEscapeSequence)))
        [] ch \in {"]", ","} -> Return(s, s.pos, Ok(f.res))
        [] ch = "\n" -> Return(s, s.pos, Err(UnexpectedEOL))
        [] OTHER -> Goto(s, p2, [f EXCEPT !.res = Append(@, ch)])

-----------------------------------------------------------------------------
(* Parser::read_attributes *)

\* The two try_consume_char calls before the loop.
read_attributes_open(c, s) ==
  LET f == Top(s)
      lb == try_consume_char(c, s.pos, "[")
      rb == try_consume_char(c, lb.pos, "]")
  IN  IF ~lb.ok
        THEN Return(s, lb.pos, Ok(f.attributes))
        ELSE IF rb.ok
          THEN Return(s, rb.pos, Ok(f.attributes))
          ELSE Goto(s, rb.pos, At(f, "read_attributes_key"))

\* The head of the loop: the call of read_attribute_key, which is read_name.
read_attributes_key(c, s) ==
  Call(s, s.pos, At(Top(s), "read_attributes_pair"), Frame_read_name)

\* A variant of read_attributes_pair that gives a bare key the empty value.
read_attributes_pair_empty(c, s) ==
  LET f == Top(s)
      eq == try_consume_char(c, s.pos, "=")
      key == s.ret.val
  IN  IF IsErr(s.ret)
        THEN Return(s, s.pos, s.ret)
        ELSE IF eq.ok
          THEN Call(s, eq.pos, [f EXCEPT !.pc = "read_attributes_value",
                                         !.key = key],
                    Frame_read_attribute_value)
          ELSE Goto(s, eq.pos,
                    [f EXCEPT !.pc = "read_attributes_separator",
                              !.key = key,
                              !.attributes = HashMap_insert(@, key, <<>>)])

\* let key = self.read_attribute_key()?; then '=' and the call of
\* read_attribute_value, or the insert of the bare key.
read_attributes_pair(c, s) ==
  LET f == Top(s)
      eq == try_consume_char(c, s.pos, "=")
      key == s.ret.val
  IN  IF IsErr(s.ret)
        THEN Return(s, s.pos, s.ret)
        ELSE IF eq.ok
          THEN Call(s, eq.pos, [f EXCEPT !.pc = "read_attributes_value",
                                         !.key = key],
                    Frame_read_attribute_value)
          ELSE Goto(s, eq.pos,
                    [f EXCEPT !.pc = "read_attributes_separator",
                              !.key = key,
                              !.attributes = HashMap_insert(@, key, key)])

\* attributes.insert(key, self.read_attribute_value()?)
read_attributes_value(c, s) ==
  LET f == Top(s)
  IN  IF IsErr(s.ret)
        THEN Return(s, s.pos, s.ret)
        ELSE Goto(s, s.pos,
                  [f EXCEPT !.pc = "read_attributes_separator",
                            !.attributes = HashMap_insert(@, f.key, s.ret.val)])

\* match self.content.consume()? { ']' => break, ',' => (), _ => panic!(..) }
read_attributes_separator(c, s) ==
  LET f == Top(s)
      r == consume(c, s.pos)
  IN  CASE IsErr(r.res) -> Return(s, r.pos, r.res)
        [] r.res.val = "]" -> Return(s, r.pos, Ok(f.attributes))
        [] r.res.val = "," -> Goto(s, r.pos, At(f, "read_attributes_key"))
        [] OTHER -> Abort(s, r.pos)

-----------------------------------------------------------------------------
(* Parser::read_indentation *)

\* A variant of read_indentation_loop that reads one space per level.
read_indentation_loop_single(c, s) ==
  LET f == Top(s)
      r1 == read_space(c, s.pos)
  IN  IF f.i >= f.indent
        THEN Return(s, s.pos, Ok(<<>>))
        ELSE IF IsErr(r1.res)
          THEN Return(s, r1.pos, r1.res)
          ELSE Goto(s, r1.pos, [f EXCEPT !.i = @ + 1])

\* One iteration of `for _ in 0..indent`: two read_space()? calls.
read_indentation_loop(c, s) ==
  LET f == Top(s)
      r1 == read_space(c, s.pos)
      r2 == read_space(c, r1.pos)
  IN  IF f.i >= f.indent
        THEN Return(s, s.pos, Ok(<<>>))
        ELSE IF IsErr(r1.res)
          THEN Return(s, r1.pos, r1.res)
          ELSE IF IsErr(r2.res)
            THEN Return(s, r2.pos, r2.res)
            ELSE Goto(s, r2.pos, [f EXCEPT !.i = @ + 1])

-----------------------------------------------------------------------------
(* Parser::call and the Display of its error *)

\* Option<&str>
Some(v) == [some |-> TRUE, val |-> v]

NoLine == [some |-> FALSE]

unwrap_or(o, default) == IF o.some THEN o.val ELSE default

ErrorWithContext(error, p, line0, line1) ==
  [error |-> error, pos |-> p, line0 |-> line0, line1 |-> line1]

\* The count of characters before the first newline of c.
RECURSIVE line_len(_)
line_len(c) == IF c = <<>> \/ c[1] = "\n" THEN 0 ELSE 1 + line_len(Tail(c))

\* str::lines: the lines of c without their endings ("\n" or "\r\n"); a
\* last line that is empty is not a line.
RECURSIVE lines(_)
lines(c) ==
  IF c = <<>> THEN <<>>
  ELSE LET n == line_len(c)
           raw == SubSeq(c, 1, n)
           line == IF n < Len(c) /\ n > 0 /\ raw[n] = "\r"
                     THEN SubSeq(raw, 1, n - 1)
                     ELSE raw
       IN  <<line>> \o lines(SubSeq(c, n + 2, Len(c)))

\* Iterator::skip(n) followed by next().
skip_next(ls, n) == IF n < Len(ls) THEN Some(ls[n + 1]) ELSE NoLine

\* What Parser::call makes of res, the result of run, p being the cursor
\* run has left.
call(c, p, res) ==
  IF res.tag = "Ok"
    THEN res
    ELSE Err(ErrorWithContext(
               res.err, p,
               IF p.line_nr > 0 THEN skip_next(lines(c), p.line_nr - 1) ELSE NoLine,
               IF p.line_nr > 0 THEN skip_next(lines(c), p.line_nr)
                                ELSE skip_next(lines(c), 0)))

\* The decimal digits of n, as "{}" writes a usize.
RECURSIVE Decimal(_)
Decimal(n) ==
  LET digit == <<"0", "1", "2", "3", "4", "5", "6", "7", "8", "9">>[(n % 10) + 1]
  IN  IF n < 10 THEN <<digit>> ELSE Append(Decimal(n \div 10), digit)

color_red == "\\u{1B}[31m"

color_reset == "\\u{1B}[0m"

\* "{:>width$}" of the one-character marker: right-aligned in width columns.
marker(width) == [i \in 1..(IF width > 1 THEN width - 1 ELSE 0) |-> " "] \o <<"^">>

\* Display::fmt of an ErrorWithContext: the pieces it writes, in order (the
\* literal texts as strings, the values as sequences of characters; the
\* marker character U+2191 is written '^').
fmt(e) ==
  << "parse error at line ", Decimal(e.pos.line_nr),
     ", column ", Decimal(e.pos.col_nr),
     ": #", e.error, "\n\n" >>
    \o (IF e.line0.some THEN <<e.line0.val, "\n">> ELSE <<>>)
    \o <<unwrap_or(e.line1, <<>>), "\n">>
    \o <<color_red, marker(e.pos.col_nr), color_reset>>

-----------------------------------------------------------------------------
(* The machine *)

\* The step the running call takes, chosen by its position.
StepOf(c, s) ==
  LET pc == Top(s).pc
  IN  CASE pc = "run_skip_blank_lines" -> run_skip_blank_lines(c, s)
        [] pc = "run_read_blocks" -> run_read_blocks(c, s)
        [] pc = "run_push_block" -> run_push_block(c, s)
        [] pc = "read_block_with_children_enter" -> read_block_with_children_enter(c, s)
        [] pc = "read_block_with_children_header" -> read_block_with_children_header(c, s)
        [] pc = "read_block_with_children_loop" -> read_block_with_children_loop(c, s)
        [] pc = "read_block_with_children_indented" -> read_block_with_children_indented(c, s)
        [] pc = "read_block_with_children_child" -> read_block_with_children_child(c, s)
        [] pc = "read_block_with_children_continued" -> read_block_with_children_continued(c, s)
        [] pc = "read_block_element_node_hash" -> read_block_element_node_hash(c, s)
        [] pc = "read_block_element_node_name" -> read_block_element_node_name(c, s)
        [] pc = "read_block_element_node_attributes" -> read_block_element_node_attributes(c, s)
        [] pc = "read_block_element_node_inline" -> read_block_element_node_inline(c, s)
        [] pc = "read_inline_element_node_enter" -> read_inline_element_node_enter(c, s)
        [] pc = "read_inline_element_node_name" -> read_inline_element_node_name(c, s)
        [] pc = "read_inline_element_node_attributes" -> read_inline_element_node_attributes(c, s)
        [] pc = "read_inline_element_node_content" -> read_inline_element_node_content(c, s)
        [] pc = "read_string_node_loop" -> read_string_node_loop(c, s)
        [] pc = "read_inline_nodes_loop" -> read_inline_nodes_loop(c, s)
        [] pc = "read_inline_nodes_push" -> read_inline_nodes_push(c, s)
        [] pc = "read_percent_body_enter" -> read_percent_body_enter(c, s)
        [] pc = "read_percent_body_result" -> read_percent_body_result(c, s)
        [] pc = "read_escaped_char_body" -> read_escaped_char_body(c, s)
        [] pc = "read_name_head_char" -> read_name_head_char(c, s)
        [] pc = "read_name_tail" -> read_name_tail(c, s)
        [] pc = "read_attribute_value_loop" -> read_attribute_value_loop(c, s)
        [] pc = "read_attributes_open" -> read_attributes_open(c, s)
        [] pc = "read_attributes_key" -> read_attributes_key(c, s)
        [] pc = "read_attributes_pair" -> read_attributes_pair(c, s)
        [] pc = "read_attributes_value" -> read_attributes_value(c, s)
        [] pc = "read_attributes_separator" -> read_attributes_separator(c, s)
        [] pc = "read_indentation_loop" -> read_indentation_loop(c, s)

\* Parser::new(s) followed by the call of run.
Parser_new == [pos |-> Pos_new, stack |-> <<Frame_run>>, ret |-> NoRet]

\* run to completion on the input c: the machine's last configuration, whose
\* ret is what run returned (or Panic).
RECURSIVE RunFrom(_, _)
RunFrom(c, s) == IF s.stack = <<>> THEN s ELSE RunFrom(c, StepOf(c, s))

Parser_run(c) == RunFrom(c, Parser_new).ret

Cfg == [pos |-> pos, stack |-> stack, ret |-> ret]

\* run has returned (or panicked).
Done == stack = <<>>

Running(label) == stack # <<>> /\ stack[Len(stack)].pc = label

\* The machine moves to the configuration n; the input stays.
Becomes(n) ==
  /\ pos' = n.pos
  /\ stack' = n.stack
  /\ ret' = n.ret
  /\ UNCHANGED <<chars, result>>

RunSkipBlankLines ==
  Running("run_skip_blank_lines") /\ Becomes(run_skip_blank_lines(chars, Cfg))

RunReadBlocks ==
  Running("run_read_blocks") /\ Becomes(run_read_blocks(chars, Cfg))

RunPushBlock ==
  Running("run_push_block") /\ Becomes(run_push_block(chars, Cfg))

ReadBlockWithChildrenEnter ==
  Running("read_block_with_children_enter") /\ Becomes(read_block_with_children_enter(chars, Cfg))

ReadBlockWithChildrenHeader ==
  Running("read_block_with_children_header") /\ Becomes(read_block_with_children_header(chars, Cfg))

ReadBlockWithChildrenLoop ==
  Running("read_block_with_children_loop") /\ Becomes(read_block_with_children_loop(chars, Cfg))

ReadBlockWithChildrenIndented ==
  Running("read_block_with_children_indented") /\ Becomes(read_block_with_children_indented(chars, Cfg))

ReadBlockWithChildrenChild ==
  Running("read_block_with_children_child") /\ Becomes(read_block_with_children_child(chars, Cfg))

ReadBlockWithChildrenContinued ==
  Running("read_block_with_children_continued") /\ Becomes(read_block_with_children_continued(chars, Cfg))

ReadBlockElementNodeHash ==
  Running("read_block_element_node_hash") /\ Becomes(read_block_element_node_hash(chars, Cfg))

ReadBlockElementNodeName ==
  Running("read_block_element_node_name") /\ Becomes(read_block_element_node_name(chars, Cfg))

ReadBlockElementNodeAttributes ==
  Running("read_block_element_node_attributes") /\ Becomes(read_block_element_node_attributes(chars, Cfg))

ReadBlockElementNodeInline ==
  Running("read_block_element_node_inline") /\ Becomes(read_block_element_node_inline(chars, Cfg))

ReadInlineElementNodeEnter ==
  Running("read_inline_element_node_enter") /\ Becomes(read_inline_element_node_enter(chars, Cfg))

ReadInlineElementNodeName ==
  Running("read_inline_element_node_name") /\ Becomes(read_inline_element_node_name(chars, Cfg))

ReadInlineElementNodeAttributes ==
  Running("read_inline_element_node_attributes") /\ Becomes(read_inline_element_node_attributes(chars, Cfg))

ReadInlineElementNodeContent ==
  Running("read_inline_element_node_content") /\ Becomes(read_inline_element_node_content(chars, Cfg))

ReadStringNodeLoop ==
  Running("read_string_node_loop") /\ Becomes(read_string_node_loop(chars, Cfg))

ReadInlineNodesLoop ==
  Running("read_inline_nodes_loop") /\ Becomes(read_inline_nodes_loop(chars, Cfg))

ReadInlineNodesPush ==
  Running("read_inline_nodes_push") /\ Becomes(read_inline_nodes_push(chars, Cfg))

ReadPercentBodyEnter ==
  Running("read_percent_body_enter") /\ Becomes(read_percent_body_enter(chars, Cfg))

ReadPercentBodyResult ==
  Running("read_percent_body_result") /\ Becomes(read_percent_body_result(chars, Cfg))

ReadEscapedCharBody ==
  Running("read_escaped_char_body") /\ Becomes(read_escaped_char_body(chars, Cfg))

ReadNameHeadChar ==
  Running("read_name_head_char") /\ Becomes(read_name_head_char(chars, Cfg))

ReadNameTail ==
  Running("read_name_tail") /\ Becomes(read_name_tail(chars, Cfg))

ReadAttributeValueLoop ==
  Running("read_attribute_value_loop") /\ Becomes(read_attribute_value_loop(chars, Cfg))

ReadAttributesOpen ==
  Running("read_attributes_open") /\ Becomes(read_attributes_open(chars, Cfg))

ReadAttributesKey ==
  Running("read_attributes_key") /\ Becomes(read_attributes_key(chars, Cfg))

ReadAttributesPair ==
  Running("read_attributes_pair") /\ Becomes(read_attributes_pair(chars, Cfg))

ReadAttributesValue ==
  Running("read_attributes_value") /\ Becomes(read_attributes_value(chars, Cfg))

ReadAttributesSeparator ==
  Running("read_attributes_separator") /\ Becomes(read_attributes_separator(chars, Cfg))

ReadIndentationLoop ==
  Running("read_indentation_loop") /\ Becomes(read_indentation_loop(chars, Cfg))

\* run has returned to Parser::call, which returns in its turn (a panic!
\* unwinds through it).
ParserCall ==
  /\ Done
  /\ ret.tag \in { "Ok", "Err" }
  /\ result = NoRet
  /\ result' = call(chars, pos, ret)
  /\ UNCHANGED <<chars, pos, stack, ret>>

Next ==
  \/ RunSkipBlankLines
  \/ RunReadBlocks
  \/ RunPushBlock
  \/ ReadBlockWithChildrenEnter
  \/ ReadBlockWithChildrenHeader
  \/ ReadBlockWithChildrenLoop
  \/ ReadBlockWithChildrenIndented
  \/ ReadBlockWithChildrenChild
  \/ ReadBlockWithChildrenContinued
  \/ ReadBlockElementNodeHash
  \/ ReadBlockElementNodeName
  \/ ReadBlockElementNodeAttributes
  \/ ReadBlockElementNodeInline
  \/ ReadInlineElementNodeEnter
  \/ ReadInlineElementNodeName
  \/ ReadInlineElementNodeAttributes
  \/ ReadInlineElementNodeContent
  \/ ReadStringNodeLoop
  \/ ReadInlineNodesLoop
  \/ ReadInlineNodesPush
  \/ ReadPercentBodyEnter
  \/ ReadPercentBodyResult
  \/ ReadEscapedCharBody
  \/ ReadNameHeadChar
  \/ ReadNameTail
  \/ ReadAttributeValueLoop
  \/ ReadAttributesOpen
  \/ ReadAttributesKey
  \/ ReadAttributesPair
  \/ ReadAttributesValue
  \/ ReadAttributesSeparator
  \/ ReadIndentationLoop
  \/ ParserCall

-----------------------------------------------------------------------------
(* Inputs *)

\* Every sequence over the alphabet A of length at most n.
Strs(A, n) == UNION { [1..k -> A] : k \in 0..n }

\* Documents of the repository's test suite (src/src/tests.rs) and a few
\* more that between them reach every step of the parser.
Corpus ==
  { <<"#", "p", " ", "h", "a", "i">>,
    <<"#", "p", " ", "%", "f", "{", "%", "b", "{", "}", "}">>,
    <<"#", "p", " ", "a", " ", "%", "%", " ", "b">>,
    <<"#", "p", "[", "f", "=", "%", "]", ",", "b", "]", " ", "h", "i">>,
    <<"#", "p", " ", "h", "i", "\n", " ", " ", "#", "x", " ", "a">>,
    <<"#", "p", " ", "h", "i", "\n", "\n", " ", " ", " ", " ", "h", "o", "\n", "#", "q">>,
    <<"\n", " ", "\n", "#", "p", "\n", " ", " ", "%", "#", "f">> }

StartOn(inputs) ==
  /\ chars \in inputs
  /\ pos = Pos_new
  /\ stack = <<Frame_run>>
  /\ ret = NoRet
  /\ result = NoRet

\* A document after a fixed beginning: every continuation over a small
\* alphabet that has each class of character the grammar tells apart.
MaxLen == 3

Alphabet == { "#", "a", " ", "\n", "%", "}", "[", "]" }

Beginnings ==
  { <<>>, <<"#", "a">>, <<"#", "a", "[">>, <<"#", "a", "[", "b", "]">>,
    <<"#", "a", "\n", " ", " ">> }

Documents == { b \o w : b \in Beginnings, w \in Strs(Alphabet, MaxLen) }

Init == StartOn(Corpus \cup Documents)

Spec == Init /\ [][Next]_vars

\* Documents for the runs to completion: a beginning and up to MaxLive
\* characters.
MaxLive == 3

LiveDocuments ==
  { b \o w : b \in Beginnings, w \in Strs({ "#", "a", " ", "\n", "%" }, MaxLive) }

InitLive == StartOn(Corpus \cup LiveDocuments)

\* The parser is one sequential program: a step that can be taken is taken.
SpecLive == InitLive /\ [][Next]_vars /\ WF_vars(Next)

\* Documents that open with blank lines.
MaxBlankDoc == 6

BlankDocuments == Strs({ " ", "\n", "#", "a" }, MaxBlankDoc)

InitBlank == StartOn(Corpus \cup BlankDocuments)

SpecBlank == InitBlank /\ [][Next]_vars

\* One header line "#a " with an inline element "%a{..}" in it, between
\* optional plain text.
MaxBody == 5

InlineDocuments ==
  { <<"#", "a", " ">> \o pre \o <<"%", "a", "{">> \o body \o <<"}">> \o post :
      pre \in { <<>>, <<"a">> },
      body \in Strs({ "a", "%", "{", "}" }, MaxBody),
      post \in { <<>>, <<" ">> } }

InitInline == StartOn(Corpus \cup InlineDocuments)

SpecInline == InitInline /\ [][Next]_vars

\* A '%' escape in a header line or in a continuation line, between plain
\* text and further inline content.
MaxPost == 3

EscapeDocuments ==
  { b \o pre \o <<"%", c>> \o post :
      b \in { <<"#", "a", " ">>, <<"#", "a", "\n", " ", " ">> },
      pre \in Strs({ "a", " " }, 2),
      c \in { "%", "}", "#" },
      post \in Strs({ "a", "%", "}", "#" }, MaxPost) }

InitEscape == StartOn(Corpus \cup EscapeDocuments)

SpecEscape == InitEscape /\ [][Next]_vars

\* A block header that opens an attribute list.
MaxList == 5

AttrDocuments ==
  { <<"#", "a", "[">> \o w : w \in Strs({ "a", "b", "=", ",", "]" }, MaxList) }

InitAttrs == StartOn(Corpus \cup AttrDocuments)

SpecAttrs == InitAttrs /\ [][Next]_vars

\* An attribute value: an encoded value, then what ends it or breaks it.
MaxValue == 4

ValueBegin == <<"#", "a", "[", "k", "=">>

ValueEnds ==
  { <<>>, <<"]">>, <<",", "b", "]">>, <<"\n", "]">>, <<"%", "\n", "]">>,
    <<"%", "x", "]">>, <<"%", " ", "]">>, <<"%", "=">>, <<"%">> }

ValueDocuments ==
  { ValueBegin \o w \o e :
      w \in Strs({ "x", "=", "%", "]", "," }, MaxValue), e \in ValueEnds }

InitValue == StartOn(Corpus \cup ValueDocuments)

SpecValue == InitValue /\ [][Next]_vars

\* A name, where a block name, an inline element name and an attribute key
\* are read.
MaxName == 3

NameDocuments ==
  { b \o w \o e :
      b \in { <<"#">>, <<"#", "a", " ", "%">>, <<"#", "a", "[">> },
      w \in Strs({ "a", "B", "1", "-", "_", " " }, MaxName),
      e \in { <<>>, <<"]">>, <<"{", "}">> } }

InitName == StartOn(Corpus \cup NameDocuments)

SpecName == InitName /\ [][Next]_vars

\* A line in the body of a block of level 0 or of level 1, indented by
\* IndentOf(d) spaces or more.
MaxLine == 3

Spaces(n) == [i \in 1..n |-> " "]

BodyOf(d) ==
  IF d = 1 THEN <<"#", "a", "\n">>
           ELSE <<"#", "a", "\n", " ", " ", "#", "b", "\n">>

IndentDocuments ==
  { BodyOf(d) \o Spaces(2 * d + n) \o w :
      d \in { 1, 2 }, n \in 0..2, w \in Strs({ "#", "b", " ", "=" }, MaxLine) }

InitIndent == StartOn(Corpus \cup IndentDocuments)

SpecIndent == InitIndent /\ [][Next]_vars

\* A header line and up to two lines in the body of its block, without
\* blank lines between them.
MaxCont == 2

ContHeaders == { <<"#", "a">>, <<"#", "a", " ", "a">>, <<"#", "a", " ", "%", "a", "{", "}">> }

ContLine(w) == IF w = <<>> THEN <<>> ELSE <<"\n", " ", " ">> \o w

ContDocuments ==
  { h \o ContLine(l1) \o ContLine(l2) :
      h \in ContHeaders,
      l1 \in Strs({ "a", "#", "%" }, MaxCont),
      l2 \in Strs({ "a", "#", "%" }, MaxCont) }

InitCont == StartOn(Corpus \cup ContDocuments)

SpecCont == InitCont /\ [][Next]_vars

\* A block with a nested block, then lines at every indentation from 0 to
\* 4 spaces: block starts and text.
MaxBlocks == 2

DedentBegin == <<"#", "a", "\n", " ", " ", "#", "b">>

DedentLines ==
  { <<"\n">> \o Spaces(k) \o w :
      k \in 0..4, w \in { <<"#", "a">>, <<"#", "b">>, <<"c">> } }

RECURSIVE Joined(_, _)
Joined(S, n) ==
  IF n = 0 THEN { <<>> }
  ELSE Joined(S, n - 1) \cup { x \o l : x \in Joined(S, n - 1), l \in S }

DedentDocuments == { DedentBegin \o x : x \in Joined(DedentLines, MaxBlocks) }

InitDedent == StartOn(Corpus \cup DedentDocuments)

SpecDedent == InitDedent /\ [][Next]_vars

\* Every beginning of a document with an inline element with attributes,
\* in a header line or in a continuation line, and of a block header with
\* attributes.
MaxTrunc == 2

FullDocuments ==
  { b \o <<"%", "b">> \o attrs \o <<"{">> \o body \o <<"}">> :
      b \in { <<"#", "a", " ">>, <<"#", "a", "\n", " ", " ", "a">> },
      attrs \in { <<>>, <<"[", "c", "=", "d", "%", "]", ",", "e", "]">> },
      body \in Strs({ "a", "%", "}" }, MaxTrunc) }
    \cup { <<"#", "a", "[", "c", "=", "d", "%", "%", ",", "e", "]">> }

Prefixes(d) == { SubSeq(d, 1, n) : n \in 0..Len(d) }

TruncDocuments == UNION { Prefixes(d) : d \in FullDocuments }

InitTrunc == StartOn(Corpus \cup TruncDocuments)

SpecTrunc == InitTrunc /\ [][Next]_vars

\* A header line with an open inline element: its body and what ends it.
MaxClose == 3

CloseBegin == <<"#", "a", " ", "%", "a", "{">>

CloseDocuments == { CloseBegin \o w : w \in Strs({ "a", " ", "}", "\n" }, MaxClose) }

InitClose == StartOn(Corpus \cup CloseDocuments)

SpecClose == InitClose /\ [][Next]_vars

\* A header line with a '%' in its inline content, and what follows it.
MaxOpen == 4

OpenBegin == <<"#", "a", " ", "%">>

OpenDocuments ==
  { OpenBegin \o w : w \in Strs({ "a", "1", "\n", "{", "}", "[", "]" }, MaxOpen) }

InitOpen == StartOn(Corpus \cup OpenDocuments)

SpecOpen == InitOpen /\ [][Next]_vars

\* The inline documents, and header lines that end after the space or have
\* spaces only after it.
TextDocuments ==
  InlineDocuments
    \cup { <<"#", "a", " ">> \o x \o y : x \in { <<>>, <<" ">>, <<"a">> },
                                         y \in { <<>>, <<"\n">> } }

InitText == StartOn(Corpus \cup TextDocuments)

SpecText == InitText /\ [][Next]_vars

\* A line at the top level, after blank lines or after a complete top-level
\* block: up to MaxLead spaces and up to MaxTop characters.
MaxLead == 2

MaxTop == 3

TopBlanks == { <<>>, <<"\n">>, <<" ", "\n">> }

TopBlocks ==
  { <<"#", "a", "\n">>, <<"#", "a", " ", "a", "\n">>,
    <<"#", "a", "\n", " ", " ", "#", "b", "\n">>,
    <<"#", "a", "\n", " ", " ", "b", "\n", "\n">> }

TopDocuments ==
  { pre \o Spaces(k) \o w :
      pre \in TopBlanks \cup TopBlocks,
      k \in 0..MaxLead,
      w \in Strs({ "#", "a", "1", " ", "\n" }, MaxTop) }

InitTop == StartOn(Corpus \cup TopDocuments)

SpecTop == InitTop /\ [][Next]_vars

\* A header line and up to MaxGap lines after it: blank lines, with a space
\* or without, continuation lines, nested blocks and top-level blocks.
MaxGap == 4

GapLines ==
  { <<"\n">>, <<"\n", " ">>, <<"\n", " ", " ", "b">>, <<"\n", " ", " ", "#", "b">>,
    <<"\n", "#", "b">> }

GapDocuments ==
  { h \o x : h \in { <<"#", "a">>, <<"#", "a", " ", "a">> }, x \in Joined(GapLines, MaxGap) }

InitGap == StartOn(Corpus \cup GapDocuments)

SpecGap == InitGap /\ [][Next]_vars

-----------------------------------------------------------------------------
(* Helpers of the properties *)

TopFrame == stack[Len(stack)]

Caller == SubSeq(stack, 1, Len(stack) - 1)

Suffix(c, k) == SubSeq(c, k + 1, Len(c))

StartsWith(c, p) == Len(c) >= Len(p) /\ SubSeq(c, 1, Len(p)) = p

\* The element a document of one top-level block parses to.
OneBlock(name, attributes, children) ==
  Ok(<<ElementNode(name, attributes, children)>>)

\* Plain text of an inline run: no '%', no '}', no newline.
IsPlain(x) == \A i \in 1..Len(x) : x[i] \notin { "%", "}", "\n" }

\* The Text node of a plain text, none when it is empty.
TextOf(x) == IF x = <<>> THEN <<>> ELSE <<StringNode(x)>>

\* The inline run x parsed alone, as the content of a header line.
InlineRun(x) == Parser_run(<<"#", "a", " ">> \o x)

\* The calls of read_inline_nodes return to these positions.
AfterInlineNodes ==
  { "read_block_element_node_inline", "read_block_with_children_continued",
    "read_inline_element_node_content" }

-----------------------------------------------------------------------------
(* C1 *)

\* C1 (part on the result): for every input, run returns: its result is
\* Ok(node list) or Err(one error kind).
C1_RunReturnsOkOrErr ==
  Done => \/ ret.tag = "Ok" /\ DOMAIN ret = {"tag", "val"}
          \/ ret.tag = "Err" /\ ret.err \in Error

\* What does hold of the code: once an error is raised it is the result,
\* and the cursor no longer moves.
C1_FailFast == [][IsErr(ret) => ret' = ret /\ pos' = pos]_vars

-----------------------------------------------------------------------------
(* C2 *)

\* The lengths k >= 1 such that the first k characters of c are whole blank
\* lines: spaces and newlines only, ending with a newline or with the input.
BlankPrefixes(c) ==
  { k \in 1..Len(c) :
      /\ \A i \in 1..k : c[i] \in { " ", "\n" }
      /\ c[k] = "\n" \/ k = Len(c) }

\* C2: leading blank lines are ignored: when the input is b ++ d with b made
\* of blank lines, run returns what it returns on d alone; an input of
\* spaces and newlines only returns Ok(empty list).
C2_LeadingBlankLinesIgnored ==
  Done =>
    /\ \A k \in BlankPrefixes(chars) : ret = Parser_run(Suffix(chars, k))
    /\ (\A i \in 1..Len(chars) : chars[i] \in { " ", "\n" }) => ret = Ok(<<>>)

\* Two blank lines, the first with spaces, were skipped before a block that
\* parsed.
C2_Witness ==
  /\ Done
  /\ \E k \in BlankPrefixes(chars) : k >= 3 /\ chars[1] = " "
  /\ ret.tag = "Ok" /\ ret.val # <<>>

-----------------------------------------------------------------------------
(* C3 *)

\* The step of read_block_element_node that reads the character after the
\* name and the attribute list, and the step that ends a header line with
\* inline content.
C3_HeaderStep ==
  /\ (Running("read_block_element_node_attributes") /\ ret.tag = "Ok") =>
       LET ch == peek(chars, pos)
       IN  CASE ch \in { None, "\n" } ->
                  /\ stack' = Caller
                  /\ ret' = Ok(ElementNode(TopFrame.name, ret.val, <<>>))
             [] ch = " " ->
                  /\ pos'.idx = pos.idx + 1
                  /\ Len(stack') = Len(stack) + 1
                  /\ stack'[Len(stack')] = Frame_read_inline_nodes
             [] OTHER ->
                  /\ stack' = Caller
                  /\ ret' = Err(UnexpectedContentAfterBlockName)
  /\ (Running("read_block_element_node_inline") /\ ret.tag = "Ok" /\ ret'.tag = "Ok") =>
       /\ stack' = Caller
       /\ ret' = Ok(ElementNode(TopFrame.name, TopFrame.attributes, ret.val))

\* C3: after '#', the name and the optional attribute list, end-of-input or
\* a newline gives an element without children from the header line, one
\* space makes the rest of the line its inline content, any other character
\* fails with UnexpectedContentAfterBlockName; "#a" and "#a " both give an
\* element with empty children.
C3_HeaderTermination ==
  /\ [][C3_HeaderStep]_vars
  /\ [](Done /\ chars \in { <<"#", "a">>, <<"#", "a", " ">> }
          => ret = OneBlock(<<"a">>, HashMap_new, <<>>))

\* A header with an attribute list was ended by a space and inline content.
C3_Witness ==
  /\ Done
  /\ StartsWith(chars, <<"#", "a", "[", "b", "]", " ">>)
  /\ ret.tag = "Ok"
  /\ ret.val[1].children # <<>>

-----------------------------------------------------------------------------
(* C4 *)

\* C4: a well-formed inline element "%a{body}" in a header line, between
\* the plain texts pre and post, yields in input order the Text node of pre,
\* one Element node whose children are the inline run parsed from body, and
\* the Text node of post; a finished inline run leaves its terminator (a
\* newline, '}' or end-of-input) unconsumed.
C4_InlineElement ==
  /\ Done =>
       \A i \in 4..Len(chars), j \in 4..Len(chars) :
         LET pre == SubSeq(chars, 4, i - 1)
             body == SubSeq(chars, i + 3, j - 1)
             post == Suffix(chars, j)
         IN  ( /\ StartsWith(chars, <<"#", "a", " ">>)
               /\ i + 3 <= j
               /\ SubSeq(chars, i, i + 2) = <<"%", "a", "{">>
               /\ chars[j] = "}"
               /\ IsPlain(pre) /\ IsPlain(post)
               /\ \A n \in 1..Len(body) : body[n] # "\n"
               /\ InlineRun(body).tag = "Ok" )
             => ret = OneBlock(<<"a">>, HashMap_new,
                               TextOf(pre)
                                 \o <<ElementNode(<<"a">>, HashMap_new,
                                                  InlineRun(body).val[1].children)>>
                                 \o TextOf(post))
  /\ (stack # <<>> /\ TopFrame.pc \in AfterInlineNodes /\ ret.tag = "Ok") =>
       peek(chars, pos) \in { None, "\n", "}" }

\* An inline element with an inline element in its body, after a text.
C4_Witness ==
  /\ Done
  /\ chars = <<"#", "a", " ", "a", "%", "a", "{", "%", "a", "{", "a", "}", "}", " ">>
  /\ ret.tag = "Ok"
  /\ Len(ret.val[1].children) = 3
  /\ ret.val[1].children[2].children[1].type = "Element"

-----------------------------------------------------------------------------
(* C5 *)

\* C5: in inline content, '%' followed by c in {'%', '}', '#'} yields one
\* Text node holding c alone, after the Text node of the plain text before
\* it and before the nodes of the inline content after it: the escaped '}'
\* does not end the run, the escaped '#' does not start a block.
C5_InlineEscape ==
  Done =>
    \A b \in { <<"#", "a", " ">>, <<"#", "a", "\n", " ", " ">> } :
      \A i \in (Len(b) + 1)..(Len(chars) - 1) :
        LET pre == SubSeq(chars, Len(b) + 1, i - 1)
            post == Suffix(chars, i + 1)
        IN  ( /\ StartsWith(chars, b)
              /\ chars[i] = "%"
              /\ chars[i + 1] \in { "%", "}", "#" }
              /\ IsPlain(pre)
              /\ pre = <<>> \/ pre[1] # "#"
              /\ \A n \in 1..Len(post) : post[n] # "\n" )
            => IF InlineRun(post).tag = "Ok"
                 THEN ret = OneBlock(<<"a">>, HashMap_new,
                                     TextOf(pre)
                                       \o <<StringNode(<<chars[i + 1]>>)>>
                                       \o InlineRun(post).val[1].children)
                 ELSE ret = InlineRun(post)

\* An escaped '#' opens a continuation line and an escaped '}' follows.
C5_Witness ==
  /\ Done
  /\ chars = <<"#", "a", "\n", " ", " ", "%", "#", "a", "%", "}">>
  /\ ret = OneBlock(<<"a">>, HashMap_new,
                    <<StringNode(<<"#">>), StringNode(<<"a">>), StringNode(<<"}">>)>>)

-----------------------------------------------------------------------------
(* C6 *)

\* The index of the first ch in x, 0 when there is none.
IndexOf(x, ch) ==
  IF \E i \in 1..Len(x) : x[i] = ch
    THEN CHOOSE i \in 1..Len(x) : x[i] = ch /\ \A j \in 1..(i - 1) : x[j] # ch
    ELSE 0

\* The items of a list: the pieces of x between its commas.
RECURSIVE Items(_)
Items(x) ==
  IF IndexOf(x, ",") = 0
    THEN <<x>>
    ELSE <<SubSeq(x, 1, IndexOf(x, ",") - 1)>> \o Items(Suffix(x, IndexOf(x, ",")))

KeyOf(item) ==
  IF IndexOf(item, "=") = 0 THEN item ELSE SubSeq(item, 1, IndexOf(item, "=") - 1)

ValueOf(item) ==
  IF IndexOf(item, "=") = 0 THEN item ELSE Suffix(item, IndexOf(item, "="))

IsName(x) ==
  /\ x # <<>>
  /\ x[1] \in Letters
  /\ \A i \in 1..Len(x) : x[i] \in Letters \cup Digits \cup { "-", "_" }

\* A list of key and key=value items, the values free of escapes.
IsList(x) ==
  \A n \in 1..Len(Items(x)) :
    /\ IsName(KeyOf(Items(x)[n]))
    /\ \A i \in 1..Len(Items(x)[n]) : Items(x)[n][i] \notin { "%", "\n", "]" }

\* C6: an absent attribute list and "[]" give the empty mapping; a list
\* "[item,..]" gives the mapping whose keys are exactly the keys listed, a
\* key=value item mapping key to value and a bare key to its own name.
C6_AttributeList ==
  Done =>
    /\ chars \in { <<"#", "a">>, <<"#", "a", "[", "]">> }
         => ret = OneBlock(<<"a">>, HashMap_new, <<>>)
    /\ LET body == SubSeq(chars, 4, Len(chars) - 1)
           items == Items(body)
       IN  ( /\ StartsWith(chars, <<"#", "a", "[">>)
             /\ Len(chars) >= 5
             /\ chars[Len(chars)] = "]"
             /\ IsList(body) )
           => /\ ret.tag = "Ok"
              /\ Len(ret.val) = 1
              /\ ret.val[1].name = <<"a">> /\ ret.val[1].children = <<>>
              /\ DOMAIN ret.val[1].attributes =
                   { KeyOf(items[n]) : n \in 1..Len(items) }
              /\ \A n \in 1..Len(items) :
                   (\A o \in 1..Len(items) : o # n => KeyOf(items[o]) # KeyOf(items[n]))
                     => ret.val[1].attributes[KeyOf(items[n])] = ValueOf(items[n])

\* A list of a bare key and a key=value item was read.
C6_Witness ==
  /\ Done
  /\ chars = <<"#", "a", "[", "b", ",", "a", "=", "]">>
  /\ ret.tag = "Ok"
  /\ ret.val[1].attributes =
       [k \in { <<"a">>, <<"b">> } |-> IF k = <<"a">> THEN <<>> ELSE <<"b">>]

-----------------------------------------------------------------------------
(* C7 *)

\* An encoded value: plain characters and the escapes %%, %] and %,.
RECURSIVE IsEncoded(_)
IsEncoded(x) ==
  \/ x = <<>>
  \/ /\ x[1] = "%"
     /\ Len(x) >= 2
     /\ x[2] \in { "%", "]", "," }
     /\ IsEncoded(Suffix(x, 2))
  \/ /\ x[1] \notin { "%", "]", ",", "\n" }
     /\ IsEncoded(Suffix(x, 1))

\* The value it encodes: each escape stands for its second character.
RECURSIVE Decoded(_)
Decoded(x) ==
  IF x = <<>> THEN <<>>
  ELSE IF x[1] = "%" THEN <<x[2]>> \o Decoded(Suffix(x, 2))
  ELSE <<x[1]>> \o Decoded(Suffix(x, 1))

\* C7: a value is read up to the first unescaped ']' or ',', which is left;
\* %%, %] and %, decode to their second character; '%' before another
\* character that is no newline fails with UnexpectedEscapeSequence; a
\* newline in the value, or right after '%', fails with UnexpectedEOL.
C7_AttributeValue ==
  Done =>
    \A n \in Len(ValueBegin)..Len(chars) :
      LET raw == SubSeq(chars, Len(ValueBegin) + 1, n)
          rest == Suffix(chars, n)
      IN  (StartsWith(chars, ValueBegin) /\ IsEncoded(raw)) =>
            /\ rest = <<"]">> =>
                 ret = OneBlock(<<"a">>, [k \in { <<"k">> } |-> Decoded(raw)], <<>>)
            /\ rest = <<",", "b", "]">> =>
                 ret = OneBlock(<<"a">>,
                                [k \in { <<"k">>, <<"b">> } |->
                                   IF k = <<"k">> THEN Decoded(raw) ELSE <<"b">>],
                                <<>>)
            /\ (Len(rest) >= 2 /\ rest[1] = "%" /\ rest[2] \notin { "%", "]", ",", "\n" })
                 => ret = Err(UnexpectedEscapeSequence)
            /\ (Len(rest) >= 1 /\ rest[1] = "\n") => ret = Err(UnexpectedEOL)
            /\ (Len(rest) >= 2 /\ rest[1] = "%" /\ rest[2] = "\n")
                 => ret = Err(UnexpectedEOL)

\* A value with two escapes in it was decoded.
C7_Witness ==
  /\ Done
  /\ chars = ValueBegin \o <<"%", "]", "%", ",", "]">>
  /\ ret = OneBlock(<<"a">>, [k \in { <<"k">> } |-> <<"]", ",">>], <<>>)

-----------------------------------------------------------------------------
(* C8 *)

\* C8: in an attribute list, after a key, a character other than ']' and
\* ',' (and other than '=', which opens the value), or end-of-input, makes
\* run return Err(UnexpectedEOF).
C8_SeparatorElseUnexpectedEOF ==
  Done =>
    \A n \in 4..Len(chars) :
      ( /\ StartsWith(chars, <<"#", "a", "[">>)
        /\ IsName(SubSeq(chars, 4, n))
        /\ get(chars, n) \notin Letters \cup Digits \cup { "-", "_", "=", "]", "," } )
      => ret = Err(UnexpectedEOF)

-----------------------------------------------------------------------------
(* C9 *)

\* The calls of read_name return to these positions.
AfterReadName ==
  { "read_block_element_node_name", "read_inline_element_node_name",
    "read_attributes_pair" }

\* C9: where a block name, an inline element name or an attribute key is
\* read, right after its '#', '%', '[' or ',': a first character that is no
\* ASCII letter fails with InvalidCharInName; otherwise the name read is the
\* longest run of ASCII letters, digits, '-' and '_' from there, and the
\* character after it is left unconsumed.
C9_IdentifierGrammar ==
  (stack # <<>> /\ TopFrame.pc \in AfterReadName /\ ret.tag # "None") =>
    LET n == Len(ret.val)
    IN  /\ ret.tag \in { "Ok", "Err" }
        /\ ret.tag = "Ok" =>
             /\ n >= 1 /\ pos.idx > n
             /\ chars[pos.idx - n] \in { "#", "%", "[", "," }
             /\ ret.val = SubSeq(chars, pos.idx - n + 1, pos.idx)
             /\ ret.val[1] \in Letters
             /\ \A i \in 1..n : ret.val[i] \in Letters \cup Digits \cup { "-", "_" }
             /\ peek(chars, pos) \notin Letters \cup Digits \cup { "-", "_" }
        /\ ret.tag = "Err" =>
             /\ pos.idx >= 2
             /\ chars[pos.idx - 1] \in { "#", "%", "[", "," }
             /\ IF pos.idx <= Len(chars)
                  THEN ret.err = InvalidCharInName /\ chars[pos.idx] \notin Letters
                  ELSE ret.err = UnexpectedEOF

\* An attribute key with an uppercase letter, a digit and a '-' was read.
C9_Witness ==
  /\ stack # <<>>
  /\ TopFrame.pc = "read_attributes_pair"
  /\ ret = Ok(<<"B", "1", "-">>)

-----------------------------------------------------------------------------
(* C10 *)

LeadingSpaces(x) == indentation_chars(x, 0)

\* The document of the block "a" (and, at level 2, of its nested block "b")
\* whose innermost block has the children kids.
Nest(d, kids) ==
  IF d = 1
    THEN OneBlock(<<"a">>, HashMap_new, kids)
    ELSE OneBlock(<<"a">>, HashMap_new, <<ElementNode(<<"b">>, HashMap_new, kids)>>)

\* C10: a line of plain text in the body of a block of level d - 1, with
\* n >= 2 * d leading spaces: it is a nested block, appended as one Element
\* child, if and only if n = 2 * d and the line goes on with '#' and an
\* ASCII letter; otherwise what follows the 2 * d spaces is continuation
\* content of the block.
C10_NestedOrContinuation ==
  Done =>
    \A d \in { 1, 2 } :
      LET rest == Suffix(chars, Len(BodyOf(d)))
          n == LeadingSpaces(rest)
          line == Suffix(rest, n)
          nested == n = 2 * d /\ line[1] = "#" /\ get(line, 1) \in Letters
          inner == IF nested
                     THEN Parser_run(line)
                     ELSE Ok(<<StringNode(Spaces(n - 2 * d) \o line)>>)
      IN  ( /\ StartsWith(chars, BodyOf(d))
            /\ n >= 2 * d
            /\ line # <<>>
            /\ IsPlain(line) )
          => IF inner.tag = "Ok"
               THEN /\ Len(inner.val) = 1
                    /\ nested <=> inner.val[1].type = "Element"
                    /\ ret = Nest(d, inner.val)
               ELSE ret = inner

\* At level 2, a '#' line with surplus indentation became continuation
\* content.
C10_Witness ==
  /\ Done
  /\ chars = BodyOf(2) \o Spaces(5) \o <<"#", "b">>
  /\ ret = Nest(2, <<StringNode(<<" ", "#", "b">>)>>)

-----------------------------------------------------------------------------
(* C11 *)

\* A body line that starts a nested block: '#' and an ASCII letter.
IsBlockStart(w) == Len(w) >= 2 /\ w[1] = "#" /\ w[2] \in Letters

\* The body line w parses alone: as a block when it starts one, as an
\* inline run otherwise.
LineParses(w) ==
  IF IsBlockStart(w) THEN Parser_run(w).tag = "Ok" ELSE InlineRun(w).tag = "Ok"

\* The children of an element after the body line w is read, kids being
\* the children it had before: a nested block is one more child; the nodes
\* of a continuation line come after one separator when kids is not empty,
\* after none when it is.
WithLine(kids, w) ==
  CASE w = <<>> -> kids
    [] IsBlockStart(w) -> Append(kids, Parser_run(w).val[1])
    [] OTHER -> kids \o (IF kids = <<>> THEN <<>> ELSE <<Newline>>)
                     \o InlineRun(w).val[1].children

\* C11: when a continuation line is appended to an element (no blank line
\* before it), exactly one Text "\n" is put before the line's nodes if and
\* only if the element already has a child, from the header line or from
\* an earlier body line, Text or Element; first content that comes from a
\* continuation line gets no leading separator.
C11_ContinuationSeparator ==
  Done =>
    \A h \in ContHeaders :
      \A i \in Len(h)..Len(chars), j \in Len(h)..Len(chars) :
        LET l1 == SubSeq(chars, Len(h) + 4, i)
            l2 == SubSeq(chars, i + 4, j)
        IN  ( /\ StartsWith(chars, h)
              /\ i <= j /\ j = Len(chars)
              /\ chars = h \o ContLine(l1) \o ContLine(l2)
              /\ \A n \in 1..Len(l1) : l1[n] \notin { "\n", " ", "}" }
              /\ \A n \in 1..Len(l2) : l2[n] \notin { "\n", " ", "}" }
              /\ LineParses(l1) /\ LineParses(l2) )
            => ret = OneBlock(<<"a">>, HashMap_new,
                              WithLine(WithLine(Parser_run(h).val[1].children, l1), l2))

\* A block without header content and two continuation lines: no separator
\* before the first, one before the second.
C11_Witness ==
  /\ Done
  /\ chars = <<"#", "a", "\n", " ", " ", "a", "\n", " ", " ", "%", "#">>
  /\ ret = OneBlock(<<"a">>, HashMap_new,
                    <<StringNode(<<"a">>), Newline, StringNode(<<"#">>)>>)

-----------------------------------------------------------------------------
(* C12 *)

\* The children of the innermost block of a document that begins with
\* BodyOf(d).
InnerChildren(d) ==
  IF d = 1 THEN ret.val[1].children ELSE ret.val[1].children[1].children

\* C12: for a continuation line with n >= 2 * (indent + 1) leading spaces
\* in the body of a block of level indent, read_indentation consumes the
\* 2 * (indent + 1) spaces after the newline and no more, and the first
\* Text node of the line starts with exactly n - 2 * (indent + 1) spaces.
C12_SurplusIndentationKept ==
  /\ (stack # <<>> /\ TopFrame.pc = "read_block_with_children_indented"
         /\ ret.tag = "Ok") =>
       LET k == 2 * (TopFrame.indent + 1)
       IN  /\ pos.idx > k
           /\ chars[pos.idx - k] = "\n"
           /\ \A i \in 1..k : chars[pos.idx - k + i] = " "
  /\ Done =>
       \A d \in { 1, 2 } :
         LET rest == Suffix(chars, Len(BodyOf(d)))
             n == LeadingSpaces(rest)
             line == Suffix(rest, n)
         IN  ( /\ StartsWith(chars, BodyOf(d))
               /\ n >= 2 * d
               /\ line # <<>>
               /\ IsPlain(line)
               /\ ~(n = 2 * d /\ IsBlockStart(line)) )
             => /\ ret.tag = "Ok"
                /\ InnerChildren(d)[1].type = "String"
                /\ LeadingSpaces(InnerChildren(d)[1].content) = n - 2 * d
                /\ Suffix(InnerChildren(d)[1].content, n - 2 * d) = line

\* A continuation line of a block of level 0 with three leading spaces: its
\* Text node starts with one space.
C12_Witness ==
  /\ Done
  /\ chars = BodyOf(1) \o Spaces(3) \o <<"b", " ", "b">>
  /\ ret = Nest(1, <<StringNode(<<" ", "b", " ", "b">>)>>)

-----------------------------------------------------------------------------
(* C13 *)

\* The pieces of x between the occurrences of ch.
RECURSIVE Split(_, _)
Split(x, ch) ==
  IF IndexOf(x, ch) = 0
    THEN <<x>>
    ELSE <<SubSeq(x, 1, IndexOf(x, ch) - 1)>> \o Split(Suffix(x, IndexOf(x, ch)), ch)

\* The nodes of a tree in document order, each with its depth.
RECURSIVE Outline(_, _)
Outline(nodes, depth) ==
  IF nodes = <<>> THEN <<>>
  ELSE LET node == Head(nodes)
       IN  (IF node.type = "Element"
              THEN <<[depth |-> depth, type |-> "Element", name |-> node.name]>>
                     \o Outline(node.children, depth + 1)
              ELSE <<[depth |-> depth, type |-> "String", name |-> node.content]>>)
             \o Outline(Tail(nodes), depth)

\* A line of 2 * k spaces, '#' and one letter.
IsBlockLine(l) ==
  /\ LeadingSpaces(l) % 2 = 0
  /\ Len(l) = LeadingSpaces(l) + 2
  /\ IsBlockStart(Suffix(l, LeadingSpaces(l)))

LevelOf(l) == LeadingSpaces(l) \div 2

\* Block lines, the first at level 0, none more than one level deeper than
\* the line before it.
WellNested(ls) ==
  /\ \A i \in 1..Len(ls) : IsBlockLine(ls[i])
  /\ LevelOf(ls[1]) = 0
  /\ \A i \in 2..Len(ls) : LevelOf(ls[i]) <= LevelOf(ls[i - 1]) + 1

\* A line that is not blank, with fewer than indent + 1 levels of leading
\* spaces, ends the body of the block: the call returns the block and the
\* cursor stays at the start of the line.
C13_DedentStep ==
  ( /\ Running("read_block_with_children_loop")
    /\ ~is_eof(chars, pos)
    /\ ~try_read_blank_line(chars, pos).some
    /\ LeadingSpaces(Suffix(chars, pos.idx)) \div 2 < TopFrame.indent + 1 )
  => /\ pos' = pos
     /\ stack' = Caller
     /\ ret' = Ok(TopFrame.res)

\* C13: in the body of a block of level indent, a non-blank line whose
\* count of leading spaces divided by 2 is less than indent + 1 ends the
\* body without consuming a character; the line goes to the nearest
\* ancestor whose level it satisfies, or to the top level as the next
\* sibling block: a document of well nested block lines gives the blocks in
\* document order, each at the depth of its indentation.
C13_Dedent ==
  /\ [][C13_DedentStep]_vars
  /\ [](Done =>
         LET ls == Split(chars, "\n")
         IN  WellNested(ls) =>
               /\ ret.tag = "Ok"
               /\ Outline(ret.val, 0) =
                    [i \in 1..Len(ls) |->
                       [depth |-> LevelOf(ls[i]), type |-> "Element",
                        name |-> Suffix(ls[i], LeadingSpaces(ls[i]) + 1)]])

\* A line without indentation after a block of level 2 ended the three
\* open blocks and became the second top-level block.
C13_Witness ==
  /\ Done
  /\ chars = DedentBegin \o <<"\n", " ", " ", " ", " ", "#", "a", "\n", "#", "b">>
  /\ ret.tag = "Ok"
  /\ Len(ret.val) = 2
  /\ ret.val[1].children[1].children[1].name = <<"a">>
  /\ ret.val[2] = ElementNode(<<"b">>, HashMap_new, <<>>)

-----------------------------------------------------------------------------
(* C14 *)

\* The positions of a call inside an inline element, from its name to its
\* closing brace, and inside an attribute list after its '['.
InsidePositions ==
  { "read_inline_element_node_enter", "read_inline_element_node_name",
    "read_inline_element_node_attributes", "read_inline_element_node_content",
    "read_attributes_key", "read_attributes_pair", "read_attributes_value",
    "read_attributes_separator", "read_attribute_value_loop" }

\* The input ends where the parse stands, and no error was raised so far:
\* inside an inline element or an attribute list, or at a '%' that is the
\* last character, in inline content or in an attribute value.
Truncated ==
  /\ stack # <<>>
  /\ ret.tag \notin { "Err", "Panic" }
  /\ \/ /\ is_eof(chars, pos)
        /\ \E i \in 1..Len(stack) : stack[i].pc \in InsidePositions
     \/ /\ Running("read_percent_body_enter")
        /\ peek2(chars, pos) = None
     \/ /\ Running("read_attribute_value_loop")
        /\ peek(chars, pos) = "%"
        /\ peek2(chars, pos) = None

\* C14: when the input ends right after an inline '%', inside the name of
\* an inline element or before its '{', inside its body before its '}',
\* inside an attribute list, inside an attribute value, or right after a
\* '%' in an attribute value, run returns Err(UnexpectedEOF): no other
\* kind, and not Ok.
C14_TruncatedIsUnexpectedEOF ==
  Truncated => RunFrom(chars, Cfg).ret = Err(UnexpectedEOF)

\* The input ends after the '%' in an attribute value of an inline element.
C14_Witness ==
  /\ Truncated
  /\ Running("read_attribute_value_loop")
  /\ peek(chars, pos) = "%"
  /\ \E i \in 1..Len(stack) : stack[i].pc = "read_inline_element_node_attributes"

-----------------------------------------------------------------------------
(* C15 *)

\* The body run of an inline element has ended and its terminator is the
\* current character.
AtTerminator == Running("read_inline_element_node_content") /\ ret.tag = "Ok"

\* C15 as claimed: after the body run of an inline element, a terminator
\* other than '}', a newline and end-of-input included, fails with
\* ExpectedRightBrace.
C15_ElseExpectedRightBrace ==
  (AtTerminator /\ peek(chars, pos) # "}")
    => RunFrom(chars, Cfg).ret = Err(ExpectedRightBrace)

\* The step that reads the terminator.
C15_TerminatorStep ==
  AtTerminator =>
    /\ stack' = Caller
    /\ pos'.idx = pos.idx + 1
    /\ CASE peek(chars, pos) = "}" ->
               ret' = Ok(ElementNode(TopFrame.name, TopFrame.attributes, ret.val))
          [] peek(chars, pos) = None -> ret' = Err(UnexpectedEOF)
          [] OTHER -> ret' = Err(ExpectedRightBrace)

\* C15, amended: after the body run of an inline element the terminator
\* must be '}', which is consumed; another character, a newline included,
\* fails with ExpectedRightBrace, and end-of-input fails with
\* UnexpectedEOF.
C15_ClosingBrace ==
  /\ [][C15_TerminatorStep]_vars
  /\ [](Done =>
         \A n \in Len(CloseBegin)..Len(chars) :
           ( /\ StartsWith(chars, CloseBegin)
             /\ IsPlain(SubSeq(chars, Len(CloseBegin) + 1, n)) )
           => /\ get(chars, n) = None => ret = Err(UnexpectedEOF)
              /\ get(chars, n) = "\n" => ret = Err(ExpectedRightBrace))

\* A newline ended the body of an inline element.
C15_Witness ==
  /\ Done
  /\ chars = CloseBegin \o <<"a", " ", "\n">>
  /\ ret = Err(ExpectedRightBrace)

-----------------------------------------------------------------------------
(* C16 *)

\* The length of the longest run of name characters x begins with.
NameLen(x) ==
  Cardinality({ n \in 1..Len(x) :
                  \A i \in 1..n : x[i] \in Letters \cup Digits \cup { "-", "_" } })

\* C16: after a '%' in inline content that is not followed by '%', '}' or
\* '#', a character that is no ASCII letter, a newline included, fails with
\* InvalidCharInName; after the name and the attribute list, if there is
\* one, a character other than '{', a newline included, fails with
\* ExpectedLeftBrace.
C16_InlineElementOpening ==
  (Done /\ StartsWith(chars, OpenBegin)) =>
    LET w == Suffix(chars, Len(OpenBegin))
        after == Suffix(w, NameLen(w))
        j == IndexOf(after, "]")
        list == SubSeq(after, 2, j - 1)
        rest == Suffix(after, j)
    IN  /\ (w # <<>> /\ w[1] \notin Letters \cup { "%", "}", "#" })
             => ret = Err(InvalidCharInName)
        /\ (w # <<>> /\ w[1] \in Letters /\ after # <<>>) =>
             /\ after[1] \notin { "{", "[" } => ret = Err(ExpectedLeftBrace)
             /\ ( /\ after[1] = "["
                  /\ j > 0
                  /\ list = <<>> \/ IsList(list)
                  /\ rest # <<>>
                  /\ rest[1] # "{" )
                  => ret = Err(ExpectedLeftBrace)

\* A newline came after the name and the attribute list of an inline
\* element.
C16_Witness ==
  /\ Done
  /\ chars = OpenBegin \o <<"a", "[", "]", "\n">>
  /\ ret = Err(ExpectedLeftBrace)

-----------------------------------------------------------------------------
(* C17 *)

\* C17: in the inline content of a header line or of a continuation line,
\* a '}' that comes after a complete inline run (its escapes and inline
\* elements closed), so neither escaped nor the closing brace of an open
\* inline element, fails with UnexpectedRightBrace.
C17_UnexpectedRightBrace ==
  Done =>
    \A b \in { <<"#", "a", " ">>, <<"#", "a", "\n", " ", " ">> } :
      \A i \in (Len(b) + 1)..Len(chars) :
        LET x == SubSeq(chars, Len(b) + 1, i - 1)
        IN  ( /\ StartsWith(chars, b)
              /\ chars[i] = "}"
              /\ \A n \in 1..Len(x) : x[n] # "\n"
              /\ ~IsBlockStart(x)
              /\ InlineRun(x).tag = "Ok" )
            => ret = Err(UnexpectedRightBrace)

\* A '}' after an escaped '#' in a continuation line.
C17_Witness ==
  /\ Done
  /\ chars = <<"#", "a", "\n", " ", " ", "a", "%", "#", "}", "a">>
  /\ ret = Err(UnexpectedRightBrace)

-----------------------------------------------------------------------------
(* C18 *)

\* The zero-based index of the character at which the input c violates the
\* grammar with the error e: the first n such that the input cut after the
\* character n already fails with e.
FailIndex(c, e) ==
  CHOOSE n \in 0..(Len(c) - 1) :
    /\ Parser_run(SubSeq(c, 1, n + 1)) = Err(e)
    /\ \A m \in 0..(n - 1) : Parser_run(SubSeq(c, 1, m + 1)) # Err(e)

\* The zero-based line and column of the character of index n.
LineOf(c, n) == Cardinality({ i \in 1..n : c[i] = "\n" })

ColumnOf(c, n) ==
  Cardinality({ i \in 1..n : \A j \in i..n : c[j] # "\n" })

\* C18: when Parser::call fails at a character, the position it reports
\* is the zero-based line and column of the failing character itself, the
\* character at which the grammar was violated, whatever the error kind
\* and the path that raised it.
C18_PositionOfFailingCharacter ==
  (result.tag = "Err" /\ result.err.error # UnexpectedEOF) =>
    LET n == FailIndex(chars, result.err.error)
    IN  /\ result.err.pos.line_nr = LineOf(chars, n)
        /\ result.err.pos.col_nr = ColumnOf(chars, n)

\* What does hold of the code: the position reported is the cursor as run
\* has left it, which a failing consume has moved past the character it
\* read.
C18_PositionIsCursor == result.tag = "Err" => result.err.pos = pos

-----------------------------------------------------------------------------
(* C19 *)

\* C19: the rendered message names the error kind, the 1-based line of the
\* failure (its zero-based line plus one) and its 0-based column.
C19_MessageNamesLineAndColumn ==
  result.tag = "Err" =>
    LET e == result.err
    IN  /\ fmt(e)[6] = e.error
        /\ fmt(e)[2] = Decimal(e.pos.line_nr + 1)
        /\ fmt(e)[4] = Decimal(e.pos.col_nr)

\* What does hold of the code: the message names the zero-based line.
C19_MessageNamesZeroBasedLine ==
  result.tag = "Err" =>
    LET e == result.err
    IN  /\ fmt(e)[6] = e.error
        /\ fmt(e)[2] = Decimal(e.pos.line_nr)
        /\ fmt(e)[4] = Decimal(e.pos.col_nr)

-----------------------------------------------------------------------------
(* C20 *)

\* C20: when a key occurs more than once in an attribute list, the parse
\* does not fail for it and the mapping holds the key once, with the value
\* of its last occurrence, a bare key counting as the value of its name.
C20_RepeatedKeyLastWins ==
  Done =>
    LET body == SubSeq(chars, 4, Len(chars) - 1)
        items == Items(body)
        keys == { KeyOf(items[n]) : n \in 1..Len(items) }
    IN  ( /\ StartsWith(chars, <<"#", "a", "[">>)
          /\ Len(chars) >= 5
          /\ chars[Len(chars)] = "]"
          /\ IsList(body)
          /\ Cardinality(keys) < Len(items) )
        => /\ ret.tag = "Ok"
           /\ DOMAIN ret.val[1].attributes = keys
           /\ \A n \in 1..Len(items) :
                (\A o \in (n + 1)..Len(items) : KeyOf(items[o]) # KeyOf(items[n]))
                  => ret.val[1].attributes[KeyOf(items[n])] = ValueOf(items[n])

\* The key a was listed with an empty value and then bare.
C20_Witness ==
  /\ Done
  /\ chars = <<"#", "a", "[", "a", "=", ",", "a", "]">>
  /\ ret = OneBlock(<<"a">>, [k \in { <<"a">> } |-> <<"a">>], <<>>)

-----------------------------------------------------------------------------
(* C21 *)

IsBlankLine(l) == \A i \in 1..Len(l) : l[i] = " "

\* A document of GapDocuments: its header and its lines.
IsGapDocument(ls) ==
  /\ ls[1] \in { <<"#", "a">>, <<"#", "a", " ", "a">> }
  /\ \A i \in 2..Len(ls) :
       \/ IsBlankLine(ls[i])
       \/ ls[i] \in { <<" ", " ", "b">>, <<" ", " ", "#", "b">>, <<"#", "b">> }

\* The top-level blocks after the lines i.. are read.  st holds the blocks
\* that are complete, the name and children of the open top-level block,
\* the blank lines of its body since its last content line, and whether the
\* line before was a nested block: a blank line after a nested block is in
\* the body of that block, where a dedent or the end of the input follows
\* it.
RECURSIVE GapBlocks(_, _, _)
GapBlocks(ls, i, st) ==
  IF i > Len(ls)
    THEN Append(st.done, ElementNode(st.name, HashMap_new, st.kids))
    ELSE GapBlocks(ls, i + 1,
           CASE IsBlankLine(ls[i]) ->
                  [st EXCEPT !.blanks = IF st.nested THEN @ ELSE @ + 1]
             [] ls[i] = <<" ", " ", "b">> ->
                  [st EXCEPT !.kids = @ \o (IF @ = <<>> THEN <<>> ELSE <<Newline>>)
                                        \o [n \in 1..st.blanks |-> Newline]
                                        \o <<StringNode(<<"b">>)>>,
                             !.blanks = 0,
                             !.nested = FALSE]
             [] ls[i] = <<" ", " ", "#", "b">> ->
                  [st EXCEPT !.kids = Append(@, ElementNode(<<"b">>, HashMap_new, <<>>)),
                             !.nested = TRUE]
             [] OTHER ->
                  [done |-> Append(st.done, ElementNode(st.name, HashMap_new, st.kids)),
                   name |-> <<"b">>, kids |-> <<>>, blanks |-> 0, nested |-> FALSE])

\* The step that appends a continuation line puts the separator and one
\* "\n" Text per pending blank line, and the count is zero after it.
C21_PendingStep ==
  ( /\ Running("read_block_with_children_indented")
    /\ ret.tag = "Ok"
    /\ ~try_read_block_start(chars, pos) )
  => LET f == stack'[Len(stack)]
     IN  /\ f.pending_blanks = 0
         /\ f.res.children =
              TopFrame.res.children
                \o (IF TopFrame.res.children = <<>> THEN <<>> ELSE <<Newline>>)
                \o [n \in 1..TopFrame.pending_blanks |-> Newline]

-----------------------------------------------------------------------------
(* C22 *)

\* No Text node of the node list, at any depth, has empty content.
RECURSIVE NoEmptyText(_)
NoEmptyText(nodes) ==
  \A i \in 1..Len(nodes) :
    IF nodes[i].type = "String"
      THEN nodes[i].content # <<>>
      ELSE NoEmptyText(nodes[i].children)

\* C22: every Text node of a successful parse has non-empty content:
\* read_string_node returns only after it has read a character; an inline
\* element or escape at the start of a run, or right after another one, has
\* no empty Text node before it; a header with only the space after the
\* name gives no child.
C22_NoEmptyText ==
  /\ ( /\ stack # <<>>
       /\ TopFrame.pc = "read_string_node_loop"
       /\ peek(chars, pos) \in {None, "\n", "%", "}"} )
     => TopFrame.res # <<>>
  /\ (Done /\ ret.tag = "Ok") =>
       /\ NoEmptyText(ret.val)
       /\ StartsWith(chars, <<"#", "a", " ", "%", "a", "{">>) =>
            ret.val[1].children[1].type = "Element"
       /\ chars \in { <<"#", "a", " ">>, <<"#", "a", " ", "\n">> } =>
            ret = OneBlock(<<"a">>, HashMap_new, <<>>)

\* An inline element at the start of a run; in it an escape at the start
\* and an escape right after it.
C22_Witness ==
  /\ Done
  /\ chars = <<"#", "a", " ", "%", "a", "{", "%", "}", "%", "%", "}">>
  /\ ret = OneBlock(<<"a">>, HashMap_new,
                    <<ElementNode(<<"a">>, HashMap_new,
                                  <<StringNode(<<"}">>), StringNode(<<"%">>)>>)>>)

-----------------------------------------------------------------------------
(* C23 *)

\* The input is pre, then k spaces, then a character that is no space and
\* no newline.
TopLine(pre, k) ==
  /\ StartsWith(chars, pre \o Spaces(k))
  /\ Len(chars) > Len(pre) + k
  /\ chars[Len(pre) + k + 1] \notin { " ", "\n" }

\* C23: at the top level, a first non-blank line with leading spaces fails
\* with ExpectedHash; so does a non-blank line after a complete top-level
\* block that has fewer than two leading spaces and does not start with
\* '#'; a '#' at the top level with a character after it that is no letter
\* fails with InvalidCharInName.
C23_TopLevel ==
  Done =>
    /\ \A pre \in TopBlanks : \A k \in 1..Len(chars) :
         TopLine(pre, k) => ret = Err(ExpectedHash)
    /\ \A pre \in TopBlocks : \A k \in 0..1 :
         (TopLine(pre, k) /\ (k = 1 \/ chars[Len(pre) + 1] # "#"))
           => ret = Err(ExpectedHash)
    /\ \A pre \in TopBlanks \cup TopBlocks :
         ( /\ StartsWith(chars, Append(pre, "#"))
           /\ Len(chars) > Len(pre) + 1
           /\ chars[Len(pre) + 2] \notin Letters )
         => ret = Err(InvalidCharInName)

\* A line with one leading space after a complete top-level block.
C23_Witness ==
  /\ Done
  /\ chars = <<"#", "a", " ", "a", "\n", " ", "a">>
  /\ ret = Err(ExpectedHash)

-----------------------------------------------------------------------------
(* C24 *)

\* read_end_of_inline_content is called at these positions, after
\* read_inline_nodes returned to them.
BeforeEndOfInlineContent ==
  { "read_block_element_node_inline", "read_block_with_children_continued" }

\* C24: whenever read_inline_nodes has returned Ok, the current character
\* is a newline, a '}' or the end of the input, so the call of
\* read_end_of_inline_content that follows returns Ok or
\* UnexpectedRightBrace and does not reach its panic.
C24_EndOfInlineContent ==
  (stack # <<>> /\ TopFrame.pc \in BeforeEndOfInlineContent /\ ret.tag = "Ok") =>
    LET e == read_end_of_inline_content(chars, pos).res
    IN  /\ e # Panic
        /\ e = Ok(<<>>) <=> peek(chars, pos) \in { None, "\n" }
        /\ e = Err(UnexpectedRightBrace) <=> peek(chars, pos) = "}"

\* A continuation line that ends at a '}'.
C24_Witness ==
  /\ stack # <<>>
  /\ TopFrame.pc = "read_block_with_children_continued"
  /\ ret.tag = "Ok"
  /\ ret.val # <<>>
  /\ peek(chars, pos) = "}"

-----------------------------------------------------------------------------
(* C25 *)

\* read_attribute_value has returned Ok to read_attributes.
AfterAttributeValue ==
  /\ stack # <<>>
  /\ TopFrame.pc = "read_attributes_value"
  /\ ret.tag = "Ok"

\* After a key=value pair, the insert leaves the cursor where the value
\* ended, and the match on the consumed character, the step after it, does
\* not panic.
C25_SeparatorStep ==
  (Running("read_attributes_value") /\ ret.tag = "Ok") =>
    /\ pos' = pos
    /\ stack'[Len(stack)].pc = "read_attributes_separator"
    /\ read_attributes_separator(chars, [pos |-> pos', stack |-> stack', ret |-> ret']).ret
         # Panic

\* C25: whenever read_attribute_value returns Ok, the current character is
\* ']' or ','; hence after a key=value pair the match in read_attributes
\* takes its ']' or its ',' branch, never the internal-error branch.
C25_ValueEndsAtSeparator ==
  /\ [](AfterAttributeValue =>
         /\ peek(chars, pos) \in { "]", "," }
         /\ consume(chars, pos).res \in { Ok("]"), Ok(",") })
  /\ [][C25_SeparatorStep]_vars

\* A value that ends at a ',' after an escaped ']'.
C25_Witness ==
  /\ AfterAttributeValue
  /\ ret.val = <<"x", "]">>
  /\ peek(chars, pos) = ","

-----------------------------------------------------------------------------
(* C26 *)

\* C26: in every state whose offset is at most the length of the input,
\* the line is the number of newlines among the first offset characters
\* and the column is the number of characters since the last of them (since
\* the start of the input when there is none), after single-character
\* advances and after the skip of a blank line alike.
C26_PositionBookkeeping ==
  pos.idx <= Len(chars) =>
    /\ pos.line_nr = LineOf(chars, pos.idx)
    /\ pos.col_nr = ColumnOf(chars, pos.idx)

\* In the body of a block, after the skip of a blank line of one space.
C26_Witness ==
  /\ stack # <<>>
  /\ TopFrame.pc = "read_block_with_children_loop"
  /\ TopFrame.pending_blanks = 1
  /\ pos.idx >= 2 /\ pos.idx < Len(chars)
  /\ chars[pos.idx] = "\n" /\ chars[pos.idx - 1] = " "
  /\ pos.line_nr = 2 /\ pos.col_nr = 0

-----------------------------------------------------------------------------
(* C27 *)

\* read_attributes after read_attribute_key returned: try_consume_char('=')
\* moves the cursor by one when it finds the '=', and not at all otherwise;
\* the steps that look at the current character and return on it (is_eof
\* in run, peek in read_inline_nodes and read_name) leave the cursor alone.
C27_CursorStep ==
  /\ (Running("read_attributes_pair") /\ ret.tag = "Ok") =>
       IF peek(chars, pos) = "="
         THEN /\ pos' = [pos EXCEPT !.idx = @ + 1, !.col_nr = @ + 1]
              /\ Len(stack') = Len(stack) + 1
         ELSE /\ pos' = pos
              /\ stack'[Len(stack)].pc = "read_attributes_separator"
  /\ (Running("run_read_blocks") \/ Running("read_inline_nodes_loop")) => pos' = pos
  /\ (Running("read_name_tail") /\ peek2(chars, pos) = None /\ is_eof(chars, pos))
       => pos' = pos

\* C27: try_consume_char advances the cursor by exactly one character and
\* returns true when the current character equals the expected one;
\* otherwise, at end-of-input too, it returns false and leaves offset, line
\* and column unchanged; peek, peek2 and is_eof never change the cursor.
C27_TryConsumeChar ==
  /\ [](\A e \in { "[", "]", "=" } :
          LET r == try_consume_char(chars, pos, e)
          IN  IF pos.idx < Len(chars) /\ chars[pos.idx + 1] = e
                THEN r.ok /\ r.pos = [pos EXCEPT !.idx = @ + 1, !.col_nr = @ + 1]
                ELSE ~r.ok /\ r.pos = pos)
  /\ [][C27_CursorStep]_vars

\* try_consume_char('=') has returned false after the key a and true after
\* the key b, whose value is about to be read.
C27_Witness ==
  /\ stack # <<>>
  /\ TopFrame.pc = "read_attribute_value_loop"
  /\ TopFrame.res = <<>>
  /\ chars = <<"#", "a", "[", "a", ",", "b", "=", "]">>
  /\ pos = [idx |-> 7, col_nr |-> 7, line_nr |-> 0]

-----------------------------------------------------------------------------
(* C28 *)

\* The heads of the loops of run (two), read_block_with_children,
\* read_inline_nodes, read_string_node, read_name, read_attribute_value and
\* read_attributes.
LoopHeads ==
  { "run_skip_blank_lines", "run_read_blocks", "read_block_with_children_loop",
    "read_inline_nodes_loop", "read_string_node_loop", "read_name_tail",
    "read_attribute_value_loop", "read_attributes_key" }

\* From the configuration s, the first configuration in which the call at
\* depth d is at the loop head again, or has returned.
RECURSIVE NextAtHead(_, _, _, _)
NextAtHead(c, s, d, head) ==
  IF Len(s.stack) < d \/ (Len(s.stack) = d /\ Top(s).pc = head)
    THEN s
    ELSE NextAtHead(c, StepOf(c, s), d, head)

\* An iteration that starts at a loop head comes back to the head with a
\* larger offset, or leaves the loop.
LoopProgress ==
  (stack # <<>> /\ TopFrame.pc \in LoopHeads) =>
    LET n == NextAtHead(chars, StepOf(chars, Cfg), Len(stack), TopFrame.pc)
    IN  Len(n.stack) = Len(stack) => n.pos.idx > pos.idx

\* C28: parsing terminates on every finite input: the offset never
\* decreases, every iteration of each loop strictly increases the offset or
\* leaves the loop, and run returns (or the program aborts).
C28_Termination ==
  /\ [][pos'.idx >= pos.idx]_vars
  /\ []LoopProgress
  /\ <>Done

\* The body loop of a block is at its head for the third time, each time
\* further in the input.
C28_Witness ==
  /\ stack # <<>>
  /\ TopFrame.pc = "read_block_with_children_loop"
  /\ chars = <<"#", "p", " ", "h", "i", "\n", "\n", " ", " ", " ", " ", "h", "o", "\n", "#", "q">>
  /\ pos.idx = 14
  /\ TopFrame.res.children =
       <<StringNode(<<"h", "i">>), Newline, Newline, StringNode(<<" ", " ", "h", "o">>)>>

-----------------------------------------------------------------------------
(* C29 *)

\* C29: run never returns ExpectedSpace: read_indentation(indent + 1) is
\* called only after detect_indentation counted 2 * (indent + 1) spaces or
\* more at the cursor, so each read_space it makes finds a space.
C29_NoExpectedSpace ==
  /\ ret # Err(ExpectedSpace)
  /\ result.tag = "Err" => result.err.error # ExpectedSpace
  /\ (stack # <<>> /\ TopFrame.pc = "read_indentation_loop") =>
       /\ TopFrame.indent = Caller[Len(Caller)].indent + 1
       /\ indentation_chars(chars, pos.idx) >= 2 * (TopFrame.indent - TopFrame.i)

\* read_indentation(2) has read its four spaces before a continuation line
\* of a nested block.
C29_Witness ==
  /\ stack # <<>>
  /\ TopFrame.pc = "read_indentation_loop"
  /\ TopFrame.indent = 2
  /\ TopFrame.i = 2
  /\ pos.idx > 4
  /\ SubSeq(chars, pos.idx - 3, pos.idx) = Spaces(4)
  /\ peek(chars, pos) = "c"

-----------------------------------------------------------------------------
(* C30 *)

\* C30: the cursor never moves past the end of the input: in every
\* reachable state, after a consume that failed with UnexpectedEOF and
\* after the skip of a blank line that ends at the end of the input
\* included, the offset is at most the length of the input.
C30_CursorWithinInput == pos.idx <= Len(chars)

\* What the code keeps: the offset is at most one past the length, and it
\* is past the length only after a consume at the end of the input or the
\* skip of a blank line that the end of the input ends.
C30_CursorAtMostOnePast ==
  /\ [](pos.idx <= Len(chars) + 1)
  /\ [][pos'.idx > Len(chars) =>
          \/ pos.idx > Len(chars)
          \/ pos.idx = Len(chars)
          \/ /\ try_read_blank_line(chars, pos) = [some |-> TRUE, val |-> Len(chars) + 1]
             /\ Running("run_skip_blank_lines") \/ Running("read_block_with_children_loop")]_vars

=============================================================================
